---- MODULE Spec2Model ----
(***************************************************************************)
(* Model of the Modbus simulator's register engine.                        *)
(*                                                                         *)
(*   Spec     the fault-injecting data block of context.py                 *)
(*            (CustomModbusSparseDataBlock built by _create_data_block).   *)
(*   SpecCli  the minimal-format server of modbus_tools/cli/server_cli.py  *)
(*            exercised by modbus_tools/cli/client_cli.py.                 *)
(*   SpecStore the register collection ModbusDataStore of models.py as     *)
(*            ui.py edits, loads and imports it.                           *)
(*   SpecSrv  the file-watching server of server.py: the poller            *)
(*            check_register_changes against the requests served.          *)
(*   SpecPool the data block of context.py called by two workers at once,  *)
(*            its parent's loops taken one word at a time.                 *)
(*   SpecEnc  ModbusDataStore.encode_value of models.py applied to a       *)
(*            register, beside a read of the block built from it.          *)
(*   SpecSave save_to_file and export_to_csv of models.py, and the loaders *)
(*            on the files they wrote.                                     *)
(*   SpecUi   the datastore edited through the register table of ui.py.    *)
(*   SpecLoad create_context of server_cli.py on the keys int() accepts.   *)
(*   SpecSim  the ModbusSimulator widget of modbus_simulator/gui/          *)
(*            simulator.py: its handlers, the register file and the        *)
(*            server process it spawns.                                    *)
(*                                                                         *)
(* The parent classes come from pymodbus 2.5.3 (src/setup.py:34); their    *)
(* behaviour is written out where the repository's code calls them.        *)
(***************************************************************************)
EXTENDS Integers, Sequences, FiniteSets, TLC

VARIABLES
    values,      \* CustomModbusSparseDataBlock.values : address -> stored word
    error_map,   \* CustomModbusSparseDataBlock.error_map : address -> behavior
    pc,          \* "idle", "sleeping" (inside time.sleep(60)) or "done"
    pos,         \* loop variable addr of getValues while it sleeps
    req,         \* the request being served / last served
    reply,       \* what the call returned or raised
    pre,         \* storage when the current request was entered
    stalled,     \* the current request has hit a NO_RESPONSE address
    registers,   \* ModbusDataStore.registers; server_cli: the loaded registers
    store,       \* the value lists of the four ModbusSequentialDataBlock served
    server_context,      \* server.py: the value lists the context bound to the
                         \* global server_context was built with
    register_file,       \* server.py: the file named by register_file
    last_modified_time,  \* server.py: the global last_modified_time
    closed,      \* worker pool: the connection of the request has been closed
    lin,         \* worker pool: the block with each finished write landed whole
    snaps,       \* worker pool: the whole-write blocks a read has overlapped
    server_running,     \* simulator: ModbusSimulator.server_running
    server_process,     \* simulator: the process self.server_process tracks
    registers_changed,  \* simulator: ModbusSimulator.registers_changed
    auto_restart,       \* simulator: auto_restart_checkbox.isChecked()
    procs               \* simulator: processes spawned and not terminated

srv_vars == <<server_context, register_file, last_modified_time>>

pool_vars == <<closed, lin, snaps>>

sim_vars == <<server_running, server_process, registers_changed, auto_restart,
              procs>>

vars == <<values, error_map, pc, pos, req, reply, pre, stalled, registers, store,
          srv_vars, pool_vars, sim_vars>>

(***************************************************************************)
(* Bounds                                                                  *)
(***************************************************************************)
MaxAddr == 1

Addr == 0..MaxAddr

(***************************************************************************)
(* models.py: register vocabulary                                          *)
(***************************************************************************)
ErrBehaviors ==
    {"ERROR_ILLEGAL_FUNCTION", "ERROR_ILLEGAL_ADDRESS", "ERROR_ILLEGAL_VALUE",
     "ERROR_SERVER_FAILURE", "ERROR_ACKNOWLEDGE", "ERROR_SERVER_BUSY",
     "ERROR_MEMORY_PARITY", "ERROR_GATEWAY_PATH", "ERROR_GATEWAY_TARGET"}

ERROR_BEHAVIORS ==
    {"NORMAL"} \cup ErrBehaviors
    \cup {"RETURN_ZERO", "RETURN_MAX_UINT", "RETURN_MAX_INT", "NO_RESPONSE"}

\* the values the registers of the initial register set may hold
StoredValues == {42}

\* the words a client may write
WriteValues == {7}

ModbusRegister ==
    [value : StoredValues, register_type : {"HOLDING_REGISTER"},
     enabled : BOOLEAN, error_behavior : ERROR_BEHAVIORS]

\* ModbusDataStore.registers : every address -> register dictionary in range
RegisterSets == UNION {[S -> ModbusRegister] : S \in SUBSET Addr}

NoReq == [op |-> "none", fc |-> "none", address |-> 0, count |-> 0, vals |-> <<>>]

NoReply == [kind |-> "none", code |-> 0, data |-> <<>>]

(***************************************************************************)
(* context.py: CustomModbusSlaveContext._create_data_block                 *)
(***************************************************************************)
create_data_block(regs, register_type) ==
    LET mine == {a \in DOMAIN regs : regs[a].register_type = register_type}
        bad  == {a \in mine : ~regs[a].enabled \/ regs[a].error_behavior # "NORMAL"}
    IN  [values    |-> [a \in mine |-> regs[a].value],
         error_map |-> [a \in bad |-> regs[a].error_behavior]]

(***************************************************************************)
(* context.py: CustomModbusSparseDataBlock.getValues                       *)
(***************************************************************************)
\* the code table with memory parity numbered 7, the next free code
ExceptionCodeSequential(error_behavior) ==
    CASE error_behavior = "ERROR_ILLEGAL_FUNCTION" -> 1
      [] error_behavior = "ERROR_ILLEGAL_ADDRESS"  -> 2
      [] error_behavior = "ERROR_ILLEGAL_VALUE"    -> 3
      [] error_behavior = "ERROR_SERVER_FAILURE"   -> 4
      [] error_behavior = "ERROR_ACKNOWLEDGE"      -> 5
      [] error_behavior = "ERROR_SERVER_BUSY"      -> 6
      [] error_behavior = "ERROR_MEMORY_PARITY"    -> 7
      [] error_behavior = "ERROR_GATEWAY_PATH"     -> 10
      [] error_behavior = "ERROR_GATEWAY_TARGET"   -> 11
      [] OTHER -> 0

\* the argument of the ModbusException raised for an Err behavior
ExceptionCode(error_behavior) ==
    CASE error_behavior = "ERROR_ILLEGAL_FUNCTION" -> 1
      [] error_behavior = "ERROR_ILLEGAL_ADDRESS"  -> 2
      [] error_behavior = "ERROR_ILLEGAL_VALUE"    -> 3
      [] error_behavior = "ERROR_SERVER_FAILURE"   -> 4
      [] error_behavior = "ERROR_ACKNOWLEDGE"      -> 5
      [] error_behavior = "ERROR_SERVER_BUSY"      -> 6
      [] error_behavior = "ERROR_MEMORY_PARITY"    -> 8
      [] error_behavior = "ERROR_GATEWAY_PATH"     -> 10
      [] error_behavior = "ERROR_GATEWAY_TARGET"   -> 11
      [] OTHER -> 0

\* the for loop of getValues from addr up to (not including) end: it leaves
\* by raising, enters time.sleep at a NO_RESPONSE address, or runs out
RECURSIVE getValuesLoop(_, _, _)
getValuesLoop(emap, addr, end) ==
    IF addr >= end
    THEN [kind |-> "pass", code |-> 0, at |-> end]
    ELSE IF addr \in DOMAIN emap /\ ExceptionCode(emap[addr]) # 0
    THEN [kind |-> "raise", code |-> ExceptionCode(emap[addr]), at |-> addr]
    ELSE IF addr \in DOMAIN emap /\ emap[addr] = "NO_RESPONSE"
    THEN [kind |-> "sleep", code |-> 0, at |-> addr]
    ELSE getValuesLoop(emap, addr + 1, end)

\* pymodbus ModbusSparseDataBlock.getValues, reached through super():
\* [self.values[i] for i in range(address, address + count)]
SparseGetValues(vals, address, count) ==
    IF \A a \in address..(address + count - 1) : a \in DOMAIN vals
    THEN [kind |-> "values", code |-> 0,
          data |-> [i \in 1..count |-> vals[address + i - 1]]]
    ELSE [kind |-> "KeyError", code |-> 0, data |-> <<>>]

\* getValues checking the behavior of the starting address only
getValuesOutcomeFirstOnly(vals, emap, address, count, from) ==
    LET r == getValuesLoop(emap, from, IF from = address THEN from + 1 ELSE from)
    IN  CASE r.kind = "raise" ->
               [pc |-> "done", pos |-> r.at,
                reply |-> [kind |-> "ModbusException", code |-> r.code, data |-> <<>>]]
          [] r.kind = "sleep" ->
               [pc |-> "sleeping", pos |-> r.at, reply |-> NoReply]
          [] OTHER ->
               [pc |-> "done", pos |-> r.at,
                reply |-> SparseGetValues(vals, address, count)]

\* getValues run from loop position from: where control is and what came out
getValuesOutcome(vals, emap, address, count, from) ==
    LET r == getValuesLoop(emap, from, address + count)
    IN  CASE r.kind = "raise" ->
               [pc |-> "done", pos |-> r.at,
                reply |-> [kind |-> "ModbusException", code |-> r.code, data |-> <<>>]]
          [] r.kind = "sleep" ->
               [pc |-> "sleeping", pos |-> r.at, reply |-> NoReply]
          [] OTHER ->
               [pc |-> "done", pos |-> r.at,
                reply |-> SparseGetValues(vals, address, count)]

\* getValues substituting destructively: the sentinel is stored on read
getValuesStoreSubstituting(vals, emap, address, count) ==
    [a \in DOMAIN vals |->
        IF a \in address..(address + count - 1) /\ a \in DOMAIN emap
        THEN CASE emap[a] = "RETURN_ZERO"     -> 0
               [] emap[a] = "RETURN_MAX_UINT" -> 65535
               [] emap[a] = "RETURN_MAX_INT"  -> 32767
               [] OTHER -> vals[a]
        ELSE vals[a]]

\* self.values after getValues: no statement of getValues assigns to it
getValuesStore(vals, emap, address, count) == vals

getValues(address, count) ==
    /\ pc # "sleeping"
    /\ LET o == getValuesOutcome(values, error_map, address, count, address)
       IN  /\ pc' = o.pc
           /\ pos' = o.pos
           /\ reply' = o.reply
           /\ stalled' = (o.pc = "sleeping")
    /\ req' = [op |-> "read", fc |-> "block", address |-> address,
               count |-> count, vals |-> <<>>]
    /\ pre' = values
    /\ values' = getValuesStore(values, error_map, address, count)
    /\ UNCHANGED <<error_map, registers, store, srv_vars, pool_vars, sim_vars>>

\* time.sleep(60) returns and the loop goes on with the next address
SleepReturns ==
    /\ pc = "sleeping"
    /\ LET o == getValuesOutcome(values, error_map, req.address, req.count, pos + 1)
       IN  /\ pc' = o.pc
           /\ pos' = o.pos
           /\ reply' = o.reply
    /\ values' = getValuesStore(values, error_map, req.address, req.count)
    /\ UNCHANGED <<error_map, req, pre, stalled, registers, store, srv_vars, pool_vars, sim_vars>>

(***************************************************************************)
(* context.py: CustomModbusSparseDataBlock.setValues                       *)
(***************************************************************************)
\* the for loop of setValues: what the list values holds when it ends
setValuesLoop(emap, address, vals) ==
    [i \in 1..Len(vals) |->
        LET addr == address + i - 1
        IN  IF addr \notin DOMAIN emap THEN vals[i]
            ELSE CASE emap[addr] = "RETURN_ZERO"     -> 0
                   [] emap[addr] = "RETURN_MAX_UINT" -> 65535
                   [] emap[addr] = "RETURN_MAX_INT"  -> 32767
                   [] OTHER -> vals[i]]

\* pymodbus ModbusSparseDataBlock.setValues, reached through super() on a
\* block built with the default mutable=True:
\* for idx, val in enumerate(values): self.values[address + idx] = val
SparseSetValues(vals, address, new) ==
    LET target == address..(address + Len(new) - 1)
    IN  [a \in DOMAIN vals \cup target |->
            IF a \in target THEN new[a - address + 1] ELSE vals[a]]

setValues(address, vals) ==
    /\ pc # "sleeping"
    /\ values' = SparseSetValues(values, address,
                                 setValuesLoop(error_map, address, vals))
    /\ req' = [op |-> "write", fc |-> "block", address |-> address,
               count |-> Len(vals), vals |-> vals]
    /\ reply' = [kind |-> "ok", code |-> 0, data |-> <<>>]
    /\ pc' = "done"
    /\ pos' = address + Len(vals)
    /\ pre' = values
    /\ stalled' = FALSE
    /\ UNCHANGED <<error_map, registers, store, srv_vars, pool_vars, sim_vars>>

(***************************************************************************)
(* context.py: CustomModbusSlaveContext as the slave of a server context   *)
(***************************************************************************)
\* a request executed against the slave context calls context.validate(fx,
\* address, count) first; CustomModbusSlaveContext defines __init__ and
\* _create_data_block only, so the attribute lookup raises AttributeError
validate(op, address, count) ==
    /\ pc # "sleeping"
    /\ req' = [op |-> op, fc |-> "context", address |-> address,
               count |-> count, vals |-> <<>>]
    /\ reply' = [kind |-> "AttributeError", code |-> 0, data |-> <<>>]
    /\ pc' = "done"
    /\ pos' = address
    /\ pre' = values
    /\ stalled' = FALSE
    /\ UNCHANGED <<values, error_map, registers, store, srv_vars, pool_vars, sim_vars>>

(***************************************************************************)
(* Spec: one data block built from a register set, then served             *)
(***************************************************************************)
Init ==
    /\ \E regs \in RegisterSets :
         LET block == create_data_block(regs, "HOLDING_REGISTER")
         IN  /\ values = block.values
             /\ error_map = block.error_map
    /\ pc = "idle"
    /\ pos = 0
    /\ req = NoReq
    /\ reply = NoReply
    /\ pre = values
    /\ stalled = FALSE
    /\ server_context = "unused"
    /\ register_file = "unused"
    /\ last_modified_time = "unused"
    /\ closed = "unused"
    /\ lin = "unused"
    /\ snaps = "unused"
    /\ registers = "unused"
    /\ store = "unused"
    /\ server_running = "unused"
    /\ server_process = "unused"
    /\ registers_changed = "unused"
    /\ auto_restart = "unused"
    /\ procs = "unused"

Next ==
    \/ \E address \in Addr : \E count \in 1..(MaxAddr + 1 - address) :
         getValues(address, count)
    \/ SleepReturns
    \/ \E address \in Addr : \E count \in 1..(MaxAddr + 1 - address) :
         \E vals \in [1..count -> WriteValues] : setValues(address, vals)
    \/ \E op \in {"read", "write"} : \E address \in Addr :
         validate(op, address, 1)

Spec == Init /\ [][Next]_vars

(***************************************************************************)
(* modbus_tools/cli/server_cli.py: the minimal-format server               *)
(***************************************************************************)
\* length of a value list built for a register type the file leaves empty
DefaultSize == 10

\* the words client_cli may write to a holding register
CliWriteValues == {9876}

CliTypes == {"hr", "ir", "co", "di"}

\* a key of the JSON file: the decimal digits of an address
Keys == {<<a>> : a \in Addr}

\* the holding-register maps a file may hold
HrMaps == UNION {[K -> {12345, 54321}] : K \in SUBSET Keys}

\* the parsed JSON documents served: a holding-register map alone, as in
\* {hr: {0: 12345, 1: 54321}}, or one with all four keys
Documents ==
    {[hr |-> m] : m \in HrMaps}
    \cup {[hr |-> m, ir |-> [k \in Keys |-> 5000], co |-> [k \in Keys |-> TRUE],
           di |-> [k \in Keys |-> TRUE]] : m \in HrMaps}

\* the register file: absent, or present with a document
Files == {[exists |-> FALSE, data |-> <<>>]}
         \cup {[exists |-> TRUE, data |-> d] : d \in Documents}

\* Python's None
None == <<>>

\* int(k) for a key of decimal digits
RECURSIVE int(_)
int(k) == IF Len(k) = 0 THEN 0 ELSE 10 * int(SubSeq(k, 1, Len(k) - 1)) + k[Len(k)]

Max(S) == CHOOSE x \in S : \A y \in S : x >= y

\* load_registers_from_file: None for a missing file, else for each of the
\* four types the map {int(k): v}, empty when the file has no such key
load_registers_from_file(file) ==
    IF ~file.exists THEN None
    ELSE [t \in CliTypes |->
            IF t \in DOMAIN file.data
            THEN [a \in {int(k) : k \in DOMAIN file.data[t]} |->
                     file.data[t][CHOOSE k \in DOMAIN file.data[t] : int(k) = a]]
            ELSE <<>>]

\* the value list with every entry one place late: list[addr + 1] = val
FillValuesOneLate(map, default) ==
    LET size == IF DOMAIN map # {} THEN Max(DOMAIN map) + 1 ELSE DefaultSize
    IN  [i \in 1..size |->
            IF (i - 2) \in DOMAIN map THEN map[i - 2] ELSE default]

\* one value list of create_context: [default] * (max key + 1), or
\* [default] * 10 for an empty map, then list[addr] = val for every entry
\* with addr < len(list); the keys served are non-negative addresses
FillValues(map, default) ==
    LET size == IF DOMAIN map # {} THEN Max(DOMAIN map) + 1 ELSE DefaultSize
    IN  [i \in 1..size |->
            IF (i - 1) \in DOMAIN map /\ (i - 1) < size THEN map[i - 1] ELSE default]

\* create_context: the value lists of the four ModbusSequentialDataBlock(0, ..)
create_context(regs) ==
    IF regs = None
    THEN [hr |-> [i \in 1..DefaultSize |-> 0],
          ir |-> [i \in 1..DefaultSize |-> 100],
          co |-> [i \in 1..DefaultSize |-> TRUE],
          di |-> [i \in 1..DefaultSize |-> FALSE]]
    ELSE [hr |-> FillValues(regs["hr"], 0),
          ir |-> FillValues(regs["ir"], 0),
          co |-> FillValues(regs["co"], FALSE),
          di |-> FillValues(regs["di"], FALSE)]

\* ModbusSlaveContext(zero_mode=True) handing an address on to its block
\* shifted by one: the context without zero_mode
SlaveAddressOneBased(address) == address + 1

\* ModbusSlaveContext(..., zero_mode=True): the address reaches the block as is
SlaveAddress(address) == address

\* ModbusSequentialDataBlock(0, values).validate(address, count)
SequentialValidate(list, address, count) ==
    0 <= address /\ Len(list) >= address + count

\* ModbusSequentialDataBlock.getValues: self.values[start:start + count]
SequentialGetValues(list, address, count) ==
    [i \in 1..count |-> list[address + i]]

\* ModbusSequentialDataBlock.setValues: self.values[start:start + len] = values
SequentialSetValues(list, address, new) ==
    [i \in 1..Len(list) |->
        IF i - 1 \in address..(address + Len(new) - 1)
        THEN new[i - address] ELSE list[i]]

\* a read request executed by the server against the slave context:
\* validate, else exception 2; then getValues
ExecuteRead(st, t, address, count) ==
    IF ~SequentialValidate(st[t], SlaveAddress(address), count)
    THEN [kind |-> "exception", code |-> 2, data |-> <<>>]
    ELSE [kind |-> "response", code |-> 0,
          data |-> SequentialGetValues(st[t], SlaveAddress(address), count)]

\* client_cli.read_registers: function hr, ir, co or di
read_registers(function, address, count) ==
    /\ req' = [op |-> "read", fc |-> function, address |-> address,
               count |-> count, vals |-> <<>>]
    /\ reply' = ExecuteRead(store, function, address, count)
    /\ pc' = "done"
    /\ pre' = store
    /\ UNCHANGED <<values, error_map, pos, stalled, registers, store, srv_vars, pool_vars, sim_vars>>

\* client_cli.write_register: function hr writes int(value) with a write
\* single register request, function co bool(int(value)) with a write single
\* coil request; the server validates, sets the value and reads it back
write_register(function, address, value) ==
    /\ function \in {"hr", "co"}
    /\ req' = [op |-> "write", fc |-> function, address |-> address,
               count |-> 1, vals |-> <<value>>]
    /\ pc' = "done"
    /\ pre' = store
    /\ IF ~SequentialValidate(store[function], SlaveAddress(address), 1)
       THEN /\ reply' = [kind |-> "exception", code |-> 2, data |-> <<>>]
            /\ UNCHANGED store
       ELSE LET st == [store EXCEPT ![function] =
                         SequentialSetValues(@, SlaveAddress(address), <<value>>)]
            IN  /\ store' = st
                /\ reply' = ExecuteRead(st, function, address, 1)
    /\ UNCHANGED <<values, error_map, pos, stalled, registers, srv_vars, pool_vars, sim_vars>>

InitCli ==
    /\ \E file \in Files :
         /\ registers = load_registers_from_file(file)
         /\ store = create_context(registers)
    /\ pc = "idle"
    /\ pos = 0
    /\ req = NoReq
    /\ reply = NoReply
    /\ pre = store
    /\ stalled = FALSE
    /\ server_context = "unused"
    /\ register_file = "unused"
    /\ last_modified_time = "unused"
    /\ closed = "unused"
    /\ lin = "unused"
    /\ snaps = "unused"
    /\ values = "unused"
    /\ error_map = "unused"
    /\ server_running = "unused"
    /\ server_process = "unused"
    /\ registers_changed = "unused"
    /\ auto_restart = "unused"
    /\ procs = "unused"

NextCli ==
    \/ \E function \in CliTypes : \E address \in Addr :
         \E count \in 1..(MaxAddr + 2) : read_registers(function, address, count)
    \/ \E address \in Addr : \E value \in CliWriteValues :
         write_register("hr", address, value)
    \/ \E address \in Addr : \E value \in BOOLEAN :
         write_register("co", address, value)

SpecCli == InitCli /\ [][NextCli]_vars

(***************************************************************************)
(* context.py: one data block called from several connection workers       *)
(***************************************************************************)
\* the workers that run requests against the block, one request each at a
\* time
Workers == {"w1", "w2"}

\* the addresses of the block the workers share
PoolAddr == {0, 1}

\* the register sets served to the workers: a register at every address,
\* NORMAL or NO_RESPONSE
PoolRegisterSets ==
    [PoolAddr -> [value : StoredValues, register_type : {"HOLDING_REGISTER"},
              enabled : {TRUE}, error_behavior : {"NORMAL", "NO_RESPONSE"}]]

Free(w) == pc[w] \in {"idle", "done"}

\* the workers inside super().setValues
Writing == {x \in Workers : pc[x] = "writing"}

\* block b with the write worker x is executing landed whole
Landed(b, x) ==
    SparseSetValues(b, req[x].address,
                    setValuesLoop(error_map, req[x].address, req[x].vals))

\* a worker enters getValues(address, count)
getValuesEnter(w, address, count) ==
    /\ Free(w)
    /\ req' = [req EXCEPT ![w] = [op |-> "read", fc |-> "block",
                                  address |-> address, count |-> count,
                                  vals |-> <<>>]]
    /\ LET r == getValuesLoop(error_map, address, address + count) IN
       /\ pc' = [pc EXCEPT ![w] = CASE r.kind = "raise" -> "done"
                                    [] r.kind = "sleep" -> "sleeping"
                                    [] OTHER -> "reading"]
       /\ pos' = [pos EXCEPT ![w] = r.at]
       /\ reply' = [reply EXCEPT ![w] =
                       IF r.kind = "raise"
                       THEN [kind |-> "ModbusException", code |-> r.code,
                             data |-> <<>>]
                       ELSE NoReply]
       /\ stalled' = [stalled EXCEPT ![w] = (r.kind = "sleep")]
    /\ closed' = [closed EXCEPT ![w] = FALSE]
    /\ snaps' = [snaps EXCEPT ![w] =
                    {lin} \cup {Landed(lin, x) : x \in Writing}]
    /\ UNCHANGED <<values, error_map, pre, registers, store, srv_vars, lin, sim_vars>>

\* time.sleep(60) returns in worker w and its loop goes on
getValuesWakes(w) ==
    /\ pc[w] = "sleeping"
    /\ LET r == getValuesLoop(error_map, pos[w] + 1,
                              req[w].address + req[w].count) IN
       /\ pc' = [pc EXCEPT ![w] = CASE r.kind = "raise" -> "done"
                                    [] r.kind = "sleep" -> "sleeping"
                                    [] OTHER -> "reading"]
       /\ pos' = [pos EXCEPT ![w] = r.at]
       /\ reply' = [reply EXCEPT ![w] =
                       IF r.kind = "raise"
                       THEN [kind |-> "ModbusException", code |-> r.code,
                             data |-> <<>>]
                       ELSE NoReply]
    /\ UNCHANGED <<values, error_map, req, pre, stalled, registers, store,
                   srv_vars, pool_vars, sim_vars>>

\* one element of [self.values[i] for i in range(address, address + count)]
\* in super().getValues: the list is returned when the last one is read
getValuesWord(w) ==
    /\ pc[w] = "reading"
    /\ LET a == req[w].address + Len(reply[w].data) IN
       IF a \notin DOMAIN values
       THEN /\ reply' = [reply EXCEPT ![w] =
                            [kind |-> "KeyError", code |-> 0, data |-> <<>>]]
            /\ pc' = [pc EXCEPT ![w] = "done"]
       ELSE LET data == Append(reply[w].data, values[a]) IN
            IF Len(data) = req[w].count
            THEN /\ reply' = [reply EXCEPT ![w] =
                                 [kind |-> "values", code |-> 0,
                                  data |-> data]]
                 /\ pc' = [pc EXCEPT ![w] = "done"]
            ELSE /\ reply' = [reply EXCEPT ![w] =
                                 [kind |-> "none", code |-> 0, data |-> data]]
                 /\ UNCHANGED pc
    /\ UNCHANGED <<values, error_map, pos, req, pre, stalled, registers,
                   store, srv_vars, pool_vars, sim_vars>>

\* a worker enters setValues(address, vals): its for loop coerces the list,
\* then super().setValues starts with nothing assigned yet
setValuesEnter(w, address, vals) ==
    /\ Free(w)
    /\ req' = [req EXCEPT ![w] = [op |-> "write", fc |-> "block",
                                  address |-> address, count |-> Len(vals),
                                  vals |-> vals]]
    /\ pc' = [pc EXCEPT ![w] = "writing"]
    /\ pos' = [pos EXCEPT ![w] = 0]
    /\ reply' = [reply EXCEPT ![w] = NoReply]
    /\ stalled' = [stalled EXCEPT ![w] = FALSE]
    /\ closed' = [closed EXCEPT ![w] = FALSE]
    /\ snaps' = [x \in Workers |->
                    IF pc[x] \in {"sleeping", "reading"}
                    THEN snaps[x] \cup
                         {SparseSetValues(lin, address,
                              setValuesLoop(error_map, address, vals))}
                    ELSE snaps[x]]
    /\ UNCHANGED <<values, error_map, pre, registers, store, srv_vars, lin, sim_vars>>

\* one round of for idx, val in enumerate(values):
\* self.values[address + idx] = val in super().setValues
setValuesWord(w) ==
    /\ pc[w] = "writing"
    /\ LET new == setValuesLoop(error_map, req[w].address, req[w].vals)
           idx == pos[w]
       IN /\ values' = SparseSetValues(values, req[w].address + idx,
                                       <<new[idx + 1]>>)
          /\ pos' = [pos EXCEPT ![w] = idx + 1]
          /\ IF idx + 1 = Len(new)
             THEN /\ pc' = [pc EXCEPT ![w] = "done"]
                  /\ reply' = [reply EXCEPT ![w] =
                                  [kind |-> "ok", code |-> 0, data |-> <<>>]]
                  /\ lin' = Landed(lin, w)
             ELSE UNCHANGED <<pc, reply, lin>>
    /\ UNCHANGED <<error_map, req, pre, stalled, registers, store, srv_vars,
                   closed, snaps, sim_vars>>

\* the transport closes the connection of a request asleep in getValues
CloseConnection(w) ==
    /\ pc[w] = "sleeping"
    /\ ~closed[w]
    /\ closed' = [closed EXCEPT ![w] = TRUE]
    /\ UNCHANGED <<values, error_map, pc, pos, req, reply, pre, stalled,
                   registers, store, srv_vars, lin, snaps, sim_vars>>

InitPool ==
    /\ \E regs \in PoolRegisterSets :
           LET block == create_data_block(regs, "HOLDING_REGISTER") IN
           /\ values = block.values
           /\ error_map = block.error_map
    /\ pc = [w \in Workers |-> "idle"]
    /\ pos = [w \in Workers |-> 0]
    /\ req = [w \in Workers |-> NoReq]
    /\ reply = [w \in Workers |-> NoReply]
    /\ stalled = [w \in Workers |-> FALSE]
    /\ closed = [w \in Workers |-> FALSE]
    /\ lin = values
    /\ snaps = [w \in Workers |-> {}]
    /\ pre = "unused"
    /\ registers = "unused"
    /\ store = "unused"
    /\ server_context = "unused"
    /\ register_file = "unused"
    /\ last_modified_time = "unused"
    /\ server_running = "unused"
    /\ server_process = "unused"
    /\ registers_changed = "unused"
    /\ auto_restart = "unused"
    /\ procs = "unused"

NextPool ==
    \/ \E w \in Workers : \E address \in PoolAddr :
           \E count \in 1..(Cardinality(PoolAddr) - address) :
               getValuesEnter(w, address, count)
    \/ \E w \in Workers : getValuesWakes(w)
    \/ \E w \in Workers : getValuesWord(w)
    \/ \E w \in Workers : \E address \in PoolAddr :
           \E count \in 1..(Cardinality(PoolAddr) - address) :
               \E vals \in [1..count -> WriteValues] :
                   setValuesEnter(w, address, vals)
    \/ \E w \in Workers : setValuesWord(w)
    \/ \E w \in Workers : CloseConnection(w)

SpecPool == InitPool /\ [][NextPool]_vars

(***************************************************************************)
(* server.py: the file-watching server                                     *)
(***************************************************************************)
MaxEdits == 2

\* the documents written to the register file while the server runs: a
\* holding-register map with one word at every address
SrvDocuments == {[hr |-> [k \in Keys |-> w]] : w \in {12345, 54321}}

\* the register file when run_server starts: absent with no modification
\* time, or written once
SrvFiles ==
    {[exists |-> FALSE, data |-> <<>>, mtime |-> 0]} \cup
    {[exists |-> TRUE, data |-> d, mtime |-> 1] : d \in SrvDocuments}

\* initialize_server: load_registers_from_file and the four value lists of
\* the ModbusServerContext it binds the global server_context to (the same
\* construction as create_context of server_cli.py)
initialize_server(file) == create_context(load_registers_from_file(file))

\* the blocks of the context given to StartTcpServer(context=server_context)
\* once initialize_server has bound the global to a new context: the running
\* server keeps the object it was started with, holding only part of the
\* rebound blocks
StartTcpServerHalfRebound(served, rebound) ==
    [served EXCEPT !["hr"] = rebound["hr"]]

\* the blocks of the context given to StartTcpServer(context=server_context)
\* once initialize_server has bound the global to a new context: the running
\* server keeps the object it was started with
StartTcpServer(served, rebound) == served

\* the register file is rewritten while the server runs
EditFile(doc) ==
    /\ register_file.mtime < MaxEdits
    /\ register_file' = [exists |-> TRUE, data |-> doc,
                         mtime |-> register_file.mtime + 1]
    /\ UNCHANGED <<values, error_map, pc, pos, req, reply, pre, stalled,
                   registers, store, server_context, last_modified_time,
                   pool_vars, sim_vars>>

\* one round of check_register_changes that finds the file modified: it
\* calls initialize_server, which runs to its end without an await
check_register_changes ==
    /\ register_file.exists
    /\ register_file.mtime > last_modified_time
    /\ last_modified_time' = register_file.mtime
    /\ server_context' = initialize_server(register_file)
    /\ store' = StartTcpServer(store, server_context')
    /\ UNCHANGED <<values, error_map, pc, pos, req, reply, pre, stalled,
                   registers, register_file, pool_vars, sim_vars>>

\* run_server: initialize_server, then StartTcpServer(context=server_context)
InitSrv ==
    /\ register_file \in SrvFiles
    /\ server_context = initialize_server(register_file)
    /\ store = server_context
    /\ last_modified_time = IF register_file.exists THEN register_file.mtime
                            ELSE 0
    /\ pc = "idle"
    /\ pos = 0
    /\ req = NoReq
    /\ reply = NoReply
    /\ pre = store
    /\ stalled = FALSE
    /\ registers = "unused"
    /\ values = "unused"
    /\ error_map = "unused"
    /\ closed = "unused"
    /\ lin = "unused"
    /\ snaps = "unused"
    /\ server_running = "unused"
    /\ server_process = "unused"
    /\ registers_changed = "unused"
    /\ auto_restart = "unused"
    /\ procs = "unused"

NextSrv ==
    \/ \E doc \in SrvDocuments : EditFile(doc)
    \/ check_register_changes
    \/ \E function \in CliTypes : \E address \in Addr :
           \E count \in 1..(MaxAddr + 1 - address) :
               read_registers(function, address, count)
    \/ \E address \in Addr : \E value \in CliWriteValues :
           write_register("hr", address, value)

SpecSrv == InitSrv /\ [][NextSrv]_vars

(***************************************************************************)
(* models.py: ModbusDataStore edited from ui.py                            *)
(***************************************************************************)
\* the register types the registers of the datastore are drawn from
StoreTypes == {"HOLDING_REGISTER", "INPUT_REGISTER"}

\* a ModbusRegister object as the dialog or a file record yields it
StoreRegisters ==
    [address : Addr, value : StoredValues, register_type : StoreTypes,
     enabled : {TRUE}, error_behavior : {"NORMAL"}]

\* one entry of data["registers"] (one row of a CSV file): the register it
\* describes, and whether it carries every key from_dict indexes (every
\* column import_from_csv converts, with text int() and float() accept)
RegData == [register : StoreRegisters, complete : BOOLEAN]

MaxRecords == 2

\* the entry lists of a file: the loaders stop at the first incomplete
\* entry, so a list ends with it, and one incomplete entry stands for all
EntryLists ==
    LET good(n) == [1..n -> {d \in RegData : d.complete}]
        bad == [register |-> CHOOSE r \in StoreRegisters : TRUE,
                complete |-> FALSE]
    IN  UNION {good(n) : n \in 0..MaxRecords} \cup
        UNION {{Append(g, bad) : g \in good(n)} : n \in 0..(MaxRecords - 1)}

\* a file handed to a loader: one open() or json.load() fails on, or a list
\* of entries
ConfigFiles ==
    {[readable |-> FALSE, registers |-> <<>>]} \cup
    {[readable |-> TRUE, registers |-> s] : s \in EntryLists}

\* self.registers[register.address] = register
Put(regs, register) ==
    [a \in DOMAIN regs \cup {register.address} |->
        IF a = register.address THEN register ELSE regs[a]]

\* the for loop of load_from_file and of import_from_csv from entry i on:
\* from_dict (the conversions of the row) raises at an incomplete entry and
\* leaves self.registers as the loop built it so far
RECURSIVE load_loop(_, _, _)
load_loop(regs, records, i) ==
    IF i > Len(records) THEN [registers |-> regs, raised |-> FALSE]
    ELSE IF ~records[i].complete THEN [registers |-> regs, raised |-> TRUE]
    ELSE load_loop(Put(regs, records[i].register), records, i + 1)

\* self.registers when a loader is left: untouched when the file cannot be
\* opened or parsed, else reset to {} and filled by the loop
load(regs, file) ==
    IF ~file.readable THEN [registers |-> regs, raised |-> TRUE]
    ELSE load_loop(<<>>, file.registers, 1)

\* MainWindow.add_register: the dialog's register goes to
\* ModbusDataStore.add_register, which returns None on either branch
add_register(register) ==
    /\ registers' = IF register.address \notin DOMAIN registers
                    THEN Put(registers, register)
                    ELSE registers
    /\ req' = [op |-> "add", fc |-> "store", address |-> register.address,
               count |-> 1, vals |-> <<register>>]
    /\ reply' = [kind |-> "ok", code |-> 0, data |-> <<>>]
    /\ pc' = "done"
    /\ pre' = registers
    /\ UNCHANGED <<values, error_map, pos, stalled, store, srv_vars, pool_vars, sim_vars>>

\* the registers left when every register from address on is deleted
DeleteFrom(regs, address) ==
    [a \in {x \in DOMAIN regs : x < address} |-> regs[a]]

\* if address in self.registers: del self.registers[address]
Delete(regs, address) ==
    [a \in DOMAIN regs \ {address} |-> regs[a]]

\* ModbusDataStore.remove_register
remove_register(address) ==
    /\ registers' = Delete(registers, address)
    /\ req' = [op |-> "remove", fc |-> "store", address |-> address,
               count |-> 1, vals |-> <<>>]
    /\ reply' = [kind |-> "ok", code |-> 0, data |-> <<>>]
    /\ pc' = "done"
    /\ pre' = registers
    /\ UNCHANGED <<values, error_map, pos, stalled, store, srv_vars, pool_vars, sim_vars>>

\* MainWindow.load_configuration calling ModbusDataStore.load_from_file: an
\* exception of the loader ends in the critical message box
load_from_file(file) ==
    LET r == load(registers, file) IN
    /\ registers' = r.registers
    /\ req' = [op |-> "load", fc |-> IF file.readable THEN "file" ELSE "unreadable",
               address |-> 0, count |-> Len(file.registers),
               vals |-> file.registers]
    /\ reply' = [kind |-> IF r.raised THEN "error" ELSE "ok", code |-> 0,
                 data |-> <<>>]
    /\ pc' = "done"
    /\ pre' = registers
    /\ UNCHANGED <<values, error_map, pos, stalled, store, srv_vars, pool_vars, sim_vars>>

\* MainWindow.import_registers calling ModbusDataStore.import_from_csv
import_from_csv(file) ==
    LET r == load(registers, file) IN
    /\ registers' = r.registers
    /\ req' = [op |-> "import", fc |-> IF file.readable THEN "file" ELSE "unreadable",
               address |-> 0, count |-> Len(file.registers),
               vals |-> file.registers]
    /\ reply' = [kind |-> IF r.raised THEN "error" ELSE "ok", code |-> 0,
                 data |-> <<>>]
    /\ pc' = "done"
    /\ pre' = registers
    /\ UNCHANGED <<values, error_map, pos, stalled, store, srv_vars, pool_vars, sim_vars>>

\* ModbusDataStore.__init__: self.registers = {}
InitStore ==
    /\ registers = <<>>
    /\ pc = "idle"
    /\ pos = 0
    /\ req = NoReq
    /\ reply = NoReply
    /\ pre = registers
    /\ stalled = FALSE
    /\ server_context = "unused"
    /\ register_file = "unused"
    /\ last_modified_time = "unused"
    /\ closed = "unused"
    /\ lin = "unused"
    /\ snaps = "unused"
    /\ values = "unused"
    /\ error_map = "unused"
    /\ store = "unused"
    /\ server_running = "unused"
    /\ server_process = "unused"
    /\ registers_changed = "unused"
    /\ auto_restart = "unused"
    /\ procs = "unused"

NextStore ==
    \/ \E register \in StoreRegisters : add_register(register)
    \/ \E address \in Addr : remove_register(address)
    \/ \E file \in ConfigFiles : load_from_file(file)
    \/ \E file \in ConfigFiles : import_from_csv(file)

SpecStore == InitStore /\ [][NextStore]_vars

(***************************************************************************)
(* models.py: ModbusDataStore.encode_value                                 *)
(***************************************************************************)
\* the data types encoded: the integer types, FLOAT32, STRING and BOOLEAN
\* of DATA_TYPES
IntTypes == {"UINT16", "INT16", "UINT32", "INT32", "UINT64", "INT64"}

EncTypes == IntTypes \cup {"FLOAT32", "STRING", "BOOLEAN"}

\* DATA_TYPES[t]["size"]: the words of a numeric type
Size(data_type) ==
    CASE data_type \in {"UINT16", "INT16"} -> 1
      [] data_type \in {"UINT32", "INT32", "FLOAT32"} -> 2
      [] data_type \in {"UINT64", "INT64"} -> 4

Signed(data_type) == data_type \in {"INT16", "INT32", "INT64"}

\* register.value: a Python int, bool or str; n is the number (1 and 0 for
\* True and False), chars the character codes of a str
IntValue(n) == [kind |-> "int", n |-> n, chars |-> <<>>]

EncValues(data_type) ==
    CASE data_type = "BOOLEAN" ->
             {[kind |-> "bool", n |-> b, chars |-> <<>>] : b \in {0, 1}}
      [] data_type = "STRING" ->
             {[kind |-> "str", n |-> 0, chars |-> s] : s \in {<<65>>, <<65, 66>>}}
      [] OTHER -> {IntValue(n) : n \in {50, 45, -7, 70000}}

\* the registers handed to encode_value; scaling_factor and offset hold
\* whole numbers
EncRegisters ==
    UNION {[value : EncValues(t), data_type : {t},
            register_type : {"HOLDING_REGISTER"}, enabled : BOOLEAN,
            error_behavior : {"NORMAL"} \cup
                {"RETURN_ZERO", "RETURN_MAX_UINT", "RETURN_MAX_INT"},
            scaling_factor : {1, 2}, offset : {0, 10},
            byte_order : {"BIG", "LITTLE"}, word_order : {"BIG", "LITTLE"}] :
           t \in EncTypes}

\* x >> 16 n
RECURSIVE ShiftR(_, _)
ShiftR(x, n) == IF n = 0 THEN x ELSE ShiftR(x \div 65536, n - 1)

\* struct.pack("!" + fstring, x) unpacked as n big-endian words, two's
\* complement for a negative x
RECURSIVE Words(_, _)
Words(x, n) ==
    IF n = 0 THEN <<>> ELSE Append(Words(x \div 65536, n - 1), x % 65536)

\* struct.pack accepts x for an integer format of n words
InRange(x, n, signed) ==
    IF signed
    THEN \/ ShiftR(x, n) = 0 /\ ShiftR(x, n - 1) % 65536 < 32768
         \/ ShiftR(x, n) = -1 /\ ShiftR(x, n - 1) % 65536 >= 32768
    ELSE ShiftR(x, n) = 0

\* a word packed with byte order "<": its two bytes change places
Swap(w) == (w % 256) * 256 + (w \div 256)

Reverse(s) == [i \in 1..Len(s) |-> s[Len(s) + 1 - i]]

\* BinaryPayloadBuilder._pack_words followed by build(): the words of the
\* value, reversed for word order little, each packed with the byte order;
\* every two bytes of the payload are one element of the list returned,
\* held here as the number its bytes make most significant byte first
pack_words(ws, byte_order, word_order) ==
    LET ordered == IF word_order = "LITTLE" THEN Reverse(ws) ELSE ws IN
    [i \in 1..Len(ws) |->
        IF byte_order = "LITTLE" THEN Swap(ordered[i]) ELSE ordered[i]]

\* int(x / d) for the float x / d: truncation toward zero
Trunc(x, d) == IF x >= 0 THEN x \div d ELSE -((-x) \div d)

\* the largest power of two that is at most a, and its exponent
RECURSIVE Pow2Below(_, _, _)
Pow2Below(a, p, e) ==
    IF 2 * p > a THEN [p |-> p, e |-> e] ELSE Pow2Below(a, 2 * p, e + 1)

\* struct.pack("!f", k / 2) as two words: sign, exponent biased by 127 and
\* the 23 bits of the fraction (exact for |k| below 2^24)
F32Words(k) ==
    LET a == IF k < 0 THEN -k ELSE k
        t == Pow2Below(a, 1, 0)
        mantissa == (a - t.p) * (8388608 \div t.p)
        sign == IF k < 0 THEN 32768 ELSE 0
    IN  IF a = 0 THEN <<0, 0>>
        ELSE <<sign + (126 + t.e) * 128 + mantissa \div 65536,
               mantissa % 65536>>

\* str(n) for n >= 0: the codes of its decimal digits
RECURSIVE Digits(_)
Digits(n) ==
    IF n < 10 THEN <<48 + n>> ELSE Append(Digits(n \div 10), 48 + (n % 10))

\* str(value) of a str, a bool, an int and a float holding a whole number
str(value) ==
    CASE value.kind = "str" -> value.chars
      [] value.kind = "bool" ->
             IF value.n = 1 THEN <<84, 114, 117, 101>>
             ELSE <<70, 97, 108, 115, 101>>
      [] value.kind = "int" ->
             IF value.n < 0 THEN <<45>> \o Digits(-value.n) ELSE Digits(value.n)
      [] value.kind = "float" ->
             (IF value.n < 0 THEN <<45>> \o Digits(-value.n)
              ELSE Digits(value.n)) \o <<46, 48>>

\* add_string followed by build(): two characters a word, an odd string
\* padded with a zero byte
StringWords(chars) ==
    [i \in 1..((Len(chars) + 1) \div 2) |->
        chars[2 * i - 1] * 256 +
        (IF 2 * i <= Len(chars) THEN chars[2 * i] ELSE 0)]

\* the value after the substitution block of encode_value:
\* if not register.enabled: RETURN_ZERO -> 0, RETURN_MAX_UINT -> 0xFFFF,
\* RETURN_MAX_INT -> 0x7FFF
Substituted(register) ==
    CASE ~register.enabled /\ register.error_behavior = "RETURN_ZERO" ->
             IntValue(0)
      [] ~register.enabled /\ register.error_behavior = "RETURN_MAX_UINT" ->
             IntValue(65535)
      [] ~register.enabled /\ register.error_behavior = "RETURN_MAX_INT" ->
             IntValue(32767)
      [] OTHER -> register.value

\* the quotient with the offset left out: float(value) / scaling_factor
ScaledNoOffset(register, value) ==
    [num |-> value.n, den |-> register.scaling_factor]

\* value = (float(value) - register.offset) / register.scaling_factor, kept
\* as numerator and denominator
Scaled(register, value) ==
    [num |-> value.n - register.offset, den |-> register.scaling_factor]

\* encode_value: what builder.build() returns, or the exception raised
encode_value(register) ==
    LET value == Substituted(register)
        data_type == register.data_type
        num == Scaled(register, value).num
        den == Scaled(register, value).den
        words(ws) == [kind |-> "words", code |-> 0,
                      data |-> pack_words(ws, register.byte_order,
                                          register.word_order)]
    IN  CASE data_type \in IntTypes ->
                 IF InRange(Trunc(num, den), Size(data_type), Signed(data_type))
                 THEN words(Words(Trunc(num, den), Size(data_type)))
                 ELSE [kind |-> "struct.error", code |-> 0, data |-> <<>>]
          [] data_type = "FLOAT32" -> words(F32Words(num * (2 \div den)))
          [] data_type = "STRING" ->
                 [kind |-> "words", code |-> 0,
                  data |-> StringWords(str(value))]
          [] data_type = "BOOLEAN" ->
                 [kind |-> "TypeError", code |-> 0, data |-> <<>>]

\* encode_value called on the register at an address of the datastore
Encode(address) ==
    /\ req' = [op |-> "encode", fc |-> "codec", address |-> address,
               count |-> 1, vals |-> <<>>]
    /\ reply' = encode_value(registers[address])
    /\ pc' = "done"
    /\ pre' = values
    /\ UNCHANGED <<values, error_map, pos, stalled, registers, store,
                   srv_vars, pool_vars, sim_vars>>

\* a datastore holding one register at address 0, and the holding-register
\* block create_custom_modbus_context builds from it
InitEnc ==
    /\ registers \in {[a \in {0} |-> r] : r \in EncRegisters}
    /\ LET block == create_data_block(registers, "HOLDING_REGISTER")
       IN  /\ values = block.values
           /\ error_map = block.error_map
    /\ req = NoReq
    /\ reply = NoReply
    /\ pc = "idle"
    /\ pos = 0
    /\ pre = values
    /\ stalled = FALSE
    /\ store = "unused"
    /\ server_context = "unused"
    /\ register_file = "unused"
    /\ last_modified_time = "unused"
    /\ closed = "unused"
    /\ lin = "unused"
    /\ snaps = "unused"
    /\ server_running = "unused"
    /\ server_process = "unused"
    /\ registers_changed = "unused"
    /\ auto_restart = "unused"
    /\ procs = "unused"

\* the register is encoded, or read from the block
NextEnc ==
    \/ Encode(0)
    \/ getValues(0, 1)

SpecEnc == InitEnc /\ [][NextEnc]_vars

(***************************************************************************)
(* models.py: save_to_file, export_to_csv and the loaders on what they     *)
(* wrote                                                                   *)
(***************************************************************************)
\* the data types and values of the registers saved: a UINT16 with an int,
\* a FLOAT32 with the float 20.0, BOOLEANs, STRINGs
SaveValues ==
    {[data_type |-> "UINT16", value |-> IntValue(42)],
     [data_type |-> "FLOAT32", value |-> [kind |-> "float", n |-> 20, chars |-> <<>>]],
     [data_type |-> "BOOLEAN", value |-> [kind |-> "bool", n |-> 1, chars |-> <<>>]],
     [data_type |-> "BOOLEAN", value |-> [kind |-> "bool", n |-> 0, chars |-> <<>>]],
     [data_type |-> "STRING", value |-> [kind |-> "str", n |-> 0, chars |-> <<65>>]],
     [data_type |-> "STRING", value |-> [kind |-> "str", n |-> 0, chars |-> <<49, 50>>]]}

SaveAddr == {0, 1}

\* ModbusRegister objects with their thirteen fields; scaling_factor and
\* offset are floats holding whole numbers
SaveRegisters ==
    {[address |-> a, name |-> "Register", value |-> v.value,
      data_type |-> v.data_type, register_type |-> "HOLDING_REGISTER",
      enabled |-> e, error_behavior |-> "NORMAL", description |-> "",
      scaling_factor |-> s, offset |-> 0, unit |-> "", word_order |-> "BIG",
      byte_order |-> "BIG"] :
     a \in SaveAddr, v \in SaveValues, e \in BOOLEAN, s \in {1, 2}}

\* self.registers of a datastore about to be saved: the key of a register is
\* its address
SaveRegisterSets ==
    UNION {{f \in [S -> SaveRegisters] : \A a \in S : f[a].address = a} :
           S \in SUBSET SaveAddr}

\* self.registers.values() as a list
RECURSIVE ValuesList(_)
ValuesList(regs) ==
    IF DOMAIN regs = {} THEN <<>>
    ELSE LET a == CHOOSE x \in DOMAIN regs : \A y \in DOMAIN regs : x <= y
         IN  <<regs[a]>> \o ValuesList([b \in DOMAIN regs \ {a} |-> regs[b]])

\* a Python float holding the whole number n
Float(n) == [kind |-> "float", n |-> n, chars |-> <<>>]

\* a Python bool
Bool(b) == [kind |-> "bool", n |-> IF b THEN 1 ELSE 0, chars |-> <<>>]

\* json.dump of a value: a number, the literal true or false, or a string
JsonDump(value) ==
    CASE value.kind = "bool" ->
             [tok |-> IF value.n = 1 THEN "true" ELSE "false", text |-> <<>>]
      [] value.kind = "str" -> [tok |-> "string", text |-> value.chars]
      [] OTHER -> [tok |-> "number", text |-> str(value)]

\* the digits of a text as a number, when the text is an optional minus sign
\* and decimal digits: what int(text) accepts
ParseInt(text) ==
    LET neg == Len(text) > 0 /\ text[1] = 45
        body == IF neg THEN Tail(text) ELSE text
        ok == Len(body) > 0 /\ \A i \in 1..Len(body) : body[i] \in 48..57
        n == int([i \in 1..Len(body) |-> body[i] - 48])
    IN  [ok |-> ok, n |-> IF ~ok THEN 0 ELSE IF neg THEN -n ELSE n]

HasDot(text) == \E i \in 1..Len(text) : text[i] = 46

\* float(text) for the texts str() makes of a whole float, digits "." "0",
\* and of an int
ParseFloat(text) ==
    IF HasDot(text)
    THEN LET dot == CHOOSE i \in 1..Len(text) : text[i] = 46
             whole == ParseInt(SubSeq(text, 1, dot - 1))
         IN  [ok |-> whole.ok /\ SubSeq(text, dot + 1, Len(text)) = <<48>>,
              n |-> whole.n]
    ELSE ParseInt(text)

\* json.load of a value
JsonLoad(token) ==
    CASE token.tok = "true" -> Bool(TRUE)
      [] token.tok = "false" -> Bool(FALSE)
      [] token.tok = "string" -> [kind |-> "str", n |-> 0, chars |-> token.text]
      [] HasDot(token.text) -> Float(ParseFloat(token.text).n)
      [] OTHER -> IntValue(ParseInt(token.text).n)

\* reg.to_dict() written by json.dump
JsonObject(register) ==
    [register EXCEPT !.address = JsonDump(IntValue(@)),
                     !.value = JsonDump(@),
                     !.enabled = JsonDump(Bool(@)),
                     !.scaling_factor = JsonDump(Float(@)),
                     !.offset = JsonDump(Float(@))]

\* reg.to_dict() written by csv.DictWriter.writerow: str() of every field
CsvRow(register) ==
    [register EXCEPT !.address = str(IntValue(@)),
                     !.value = str(@),
                     !.enabled = str(Bool(@)),
                     !.scaling_factor = str(Float(@)),
                     !.offset = str(Float(@))]

\* text.lower()
Lower(text) ==
    [i \in 1..Len(text) |-> IF text[i] \in 65..90 THEN text[i] + 32 ELSE text[i]]

\* json.load then from_dict of one object of data["registers"]
FromJson(object) ==
    [register |->
        [object EXCEPT !.address = JsonLoad(@).n,
                       !.value = JsonLoad(@),
                       !.enabled = JsonLoad(@).n = 1,
                       !.scaling_factor = JsonLoad(@).n,
                       !.offset = JsonLoad(@).n],
     complete |-> TRUE]

\* the conversions of import_from_csv on one row, then from_dict: int() of
\* the address, float() of a value with a "." in it and int() of any other,
\* lower() == "true" of enabled, float() of scaling_factor and offset; an
\* int() or float() that raises ValueError ends the import
FromCsv(row) ==
    LET address == ParseInt(row.address)
        value == IF HasDot(row.value) THEN ParseFloat(row.value)
                 ELSE ParseInt(row.value)
        scaling_factor == ParseFloat(row.scaling_factor)
        offset == ParseFloat(row.offset)
    IN  [register |->
            [row EXCEPT !.address = address.n,
                        !.value = IF HasDot(row.value) THEN Float(value.n)
                                  ELSE IntValue(value.n),
                        !.enabled = Lower(@) = <<116, 114, 117, 101>>,
                        !.scaling_factor = scaling_factor.n,
                        !.offset = offset.n],
         complete |-> address.ok /\ value.ok /\ scaling_factor.ok /\ offset.ok]

\* json.load(f)["registers"] of a file save_to_file wrote, each object with
\* every key from_dict indexes
json_load(file) ==
    [readable |-> TRUE,
     registers |-> [i \in 1..Len(file.rows) |-> FromJson(file.rows[i])]]

\* the rows csv.DictReader yields from a file export_to_csv wrote
DictReader(file) ==
    [readable |-> TRUE,
     registers |-> [i \in 1..Len(file.rows) |-> FromCsv(file.rows[i])]]

\* ModbusDataStore.save_to_file
save_to_file ==
    /\ register_file' =
           [format |-> "json",
            rows |-> [i \in 1..Len(ValuesList(registers)) |->
                         JsonObject(ValuesList(registers)[i])]]
    /\ req' = [op |-> "save", fc |-> "file", address |-> 0,
               count |-> Len(ValuesList(registers)), vals |-> <<>>]
    /\ reply' = [kind |-> "ok", code |-> 0, data |-> <<>>]
    /\ pc' = "done"
    /\ pre' = registers
    /\ UNCHANGED <<values, error_map, pos, stalled, registers, store,
                   server_context, last_modified_time, pool_vars, sim_vars>>

\* ModbusDataStore.export_to_csv
export_to_csv ==
    /\ register_file' =
           [format |-> "csv",
            rows |-> [i \in 1..Len(ValuesList(registers)) |->
                         CsvRow(ValuesList(registers)[i])]]
    /\ req' = [op |-> "export", fc |-> "file", address |-> 0,
               count |-> Len(ValuesList(registers)), vals |-> <<>>]
    /\ reply' = [kind |-> "ok", code |-> 0, data |-> <<>>]
    /\ pc' = "done"
    /\ pre' = registers
    /\ UNCHANGED <<values, error_map, pos, stalled, registers, store,
                   server_context, last_modified_time, pool_vars, sim_vars>>

InitSave ==
    /\ registers \in SaveRegisterSets
    /\ register_file = [format |-> "none", rows |-> <<>>]
    /\ pc = "idle"
    /\ pos = 0
    /\ req = NoReq
    /\ reply = NoReply
    /\ pre = registers
    /\ stalled = FALSE
    /\ server_context = "unused"
    /\ last_modified_time = "unused"
    /\ closed = "unused"
    /\ lin = "unused"
    /\ snaps = "unused"
    /\ values = "unused"
    /\ error_map = "unused"
    /\ store = "unused"
    /\ server_running = "unused"
    /\ server_process = "unused"
    /\ registers_changed = "unused"
    /\ auto_restart = "unused"
    /\ procs = "unused"

\* a datastore saved or exported, and the file written loaded or imported
NextSave ==
    \/ save_to_file
    \/ export_to_csv
    \/ register_file.format = "json" /\ load_from_file(json_load(register_file))
    \/ register_file.format = "csv" /\ import_from_csv(DictReader(register_file))

SpecSave == InitSave /\ [][NextSave]_vars

(***************************************************************************)
(* ui.py: MainWindow editing the datastore through the register table      *)
(***************************************************************************)
\* the upper end of the address spin box: setRange(0, 65535)
AddressMax == 65535

\* how far beyond the spin box's range duplication is followed
MaxCopies == 1

\* the addresses the dialog is given: the upper end of the spin box's range
UiAddr == {AddressMax - 1, AddressMax}

\* the registers the dialog yields
UiRegisters ==
    [address : UiAddr, value : StoredValues,
     register_type : {"HOLDING_REGISTER"}, enabled : {TRUE},
     error_behavior : {"NORMAL"}]

\* the files loaded and imported: one record within the range of the spin
\* box, or one whose address field holds 70000
UiFiles ==
    {[readable |-> TRUE, registers |-> <<[register |-> r, complete |-> TRUE]>>] :
       r \in {x \in UiRegisters : x.address = AddressMax - 1}
             \cup {[address |-> 70000, value |-> 42,
                    register_type |-> "HOLDING_REGISTER", enabled |-> TRUE,
                    error_behavior |-> "NORMAL"]}}

\* the address column of the table row of the register kept under key:
\* str(register.address), read back with int()
RowAddress(key) == registers[key].address

\* RegisterEditDialog.save_register on the register object kept under key:
\* self.register.address = self.address_input.value(); the dictionary is
\* not touched
SaveRegister(regs, key, address) ==
    [regs EXCEPT ![key].address = address]

\* MainWindow.edit_register on the selected row: get_register of the row's
\* address, and the dialog accepted with an address
edit_register(key, address) ==
    /\ key \in DOMAIN registers
    /\ registers' = IF RowAddress(key) \in DOMAIN registers
                    THEN SaveRegister(registers, RowAddress(key), address)
                    ELSE registers
    /\ req' = [op |-> "edit", fc |-> "store", address |-> RowAddress(key),
               count |-> 1, vals |-> <<address>>]
    /\ reply' = [kind |-> IF RowAddress(key) \in DOMAIN registers
                          THEN "ok" ELSE "none",
                 code |-> 0, data |-> <<>>]
    /\ pc' = "done"
    /\ pre' = registers
    /\ UNCHANGED <<values, error_map, pos, stalled, store, srv_vars, pool_vars, sim_vars>>

\* MainWindow.duplicate_register on the selected row: a copy with
\* address + 1 handed to ModbusDataStore.add_register
duplicate_register(key) ==
    /\ key \in DOMAIN registers
    /\ RowAddress(key) + 1 <= AddressMax + MaxCopies
    /\ registers' =
          IF RowAddress(key) \in DOMAIN registers
          THEN LET original == registers[RowAddress(key)]
                   new_register == [original EXCEPT !.address = original.address + 1]
               IN  IF new_register.address \notin DOMAIN registers
                   THEN Put(registers, new_register)
                   ELSE registers
          ELSE registers
    /\ req' = [op |-> "duplicate", fc |-> "store", address |-> RowAddress(key),
               count |-> 1, vals |-> <<>>]
    /\ reply' = [kind |-> IF RowAddress(key) \in DOMAIN registers
                          THEN "ok" ELSE "none",
                 code |-> 0, data |-> <<>>]
    /\ pc' = "done"
    /\ pre' = registers
    /\ UNCHANGED <<values, error_map, pos, stalled, store, srv_vars, pool_vars, sim_vars>>

NextUi ==
    \/ \E register \in UiRegisters : add_register(register)
    \/ \E key \in DOMAIN registers : \E address \in UiAddr :
         edit_register(key, address)
    \/ \E key \in DOMAIN registers : duplicate_register(key)
    \/ \E key \in DOMAIN registers : remove_register(RowAddress(key))
    \/ \E file \in UiFiles : load_from_file(file)
    \/ \E file \in UiFiles : import_from_csv(file)

SpecUi == InitStore /\ [][NextUi]_vars

(***************************************************************************)
(* server_cli.py: create_context on the keys int() accepts                 *)
(***************************************************************************)
\* the keys of the "hr" object of a file, as written: "-1", "0" and "1"
KeyTexts == {<<45, 49>>, <<48>>, <<49>>}

\* the "hr" object of a file: its items in the order json.load yields them,
\* no key twice
HrItems ==
    {s \in UNION {[1..n -> [key : KeyTexts, val : {12345, 54321}]] : n \in 0..3} :
       \A i \in 1..Len(s) : \A j \in 1..Len(s) : s[i].key = s[j].key => i = j}

\* {int(k): v for k, v in data["hr"].items()}: the items with their keys
\* converted, in the order of the file
IntItems(items) ==
    [i \in 1..Len(items) |->
        [addr |-> ParseInt(items[i].key).n, val |-> items[i].val]]

\* list[addr] = val on a Python list: a negative addr counts from the end,
\* and one before the start raises IndexError
SetItem(list, addr, val) ==
    LET index == IF addr < 0 THEN Len(list) + addr ELSE addr
    IN  IF index < 0 \/ index >= Len(list)
        THEN [list |-> list, raised |-> TRUE]
        ELSE [list |-> [list EXCEPT ![index + 1] = val], raised |-> FALSE]

\* for addr, val in registers["hr"].items(): if addr < len(hr_values):
\* hr_values[addr] = val, from item i on
RECURSIVE FillLoop(_, _, _)
FillLoop(list, items, i) ==
    IF i > Len(items) THEN [list |-> list, raised |-> FALSE]
    ELSE IF items[i].addr < Len(list)
    THEN LET r == SetItem(list, items[i].addr, items[i].val)
         IN  IF r.raised THEN r ELSE FillLoop(r.list, items, i + 1)
    ELSE FillLoop(list, items, i + 1)

\* hr_max, [0] * hr_max and the fill loop of create_context
FillItems(items, default) ==
    LET size == IF Len(items) > 0
                THEN Max({items[i].addr : i \in 1..Len(items)}) + 1
                ELSE DefaultSize
    IN  FillLoop([i \in 1..size |-> default], items, 1)

\* main: load_registers_from_file, create_context, run_server; an IndexError
\* of create_context ends the process before the server starts
InitLoad ==
    /\ registers \in {IntItems(items) : items \in HrItems}
    /\ store = [hr |-> FillItems(registers, 0).list,
                ir |-> [i \in 1..DefaultSize |-> 0],
                co |-> [i \in 1..DefaultSize |-> FALSE],
                di |-> [i \in 1..DefaultSize |-> FALSE]]
    /\ pc = IF FillItems(registers, 0).raised THEN "crashed" ELSE "idle"
    /\ pos = 0
    /\ req = NoReq
    /\ reply = NoReply
    /\ pre = store
    /\ stalled = FALSE
    /\ server_context = "unused"
    /\ register_file = "unused"
    /\ last_modified_time = "unused"
    /\ closed = "unused"
    /\ lin = "unused"
    /\ snaps = "unused"
    /\ values = "unused"
    /\ error_map = "unused"
    /\ server_running = "unused"
    /\ server_process = "unused"
    /\ registers_changed = "unused"
    /\ auto_restart = "unused"
    /\ procs = "unused"

\* the holding registers of the running server read by a client
NextLoad ==
    \E address \in 0..2 : \E count \in 1..2 :
       pc # "crashed" /\ read_registers("hr", address, count)

SpecLoad == InitLoad /\ [][NextLoad]_vars

(***************************************************************************)
(* modbus_simulator/gui/simulator.py: the ModbusSimulator widget           *)
(***************************************************************************)
\* the highest address add_register is followed to
MaxNextAddress == 10

SimTypes == {"hr", "ir", "co", "di"}

DEFAULT_VALUES ==
    [reg_type \in SimTypes |->
        CASE reg_type = "hr" -> IntValue(0)
          [] reg_type = "ir" -> IntValue(100)
          [] reg_type = "co" -> Bool(TRUE)
          [] reg_type = "di" -> Bool(FALSE)]

\* {i: DEFAULT_VALUES[t] for i in range(10)} for each of the four types
create_default_registers ==
    [reg_type \in SimTypes |-> [i \in 0..9 |-> DEFAULT_VALUES[reg_type]]]

\* the register type selected in the combo box, the address of the selected
\* row and the texts typed into a value cell ("7", "x")
SelectedTypes == {"hr"}
SelectedRows == {9}
CellTexts == {<<55>>, <<120>>}

\* the process ids subprocess.Popen may hand out, the lowest one free each
\* time; 0 stands for no attribute server_process
Pids == 1..3

\* json_data[reg_type] = {str(k): v for k, v in values.items()}, dumped
SimJson(regs) ==
    [valid |-> TRUE,
     obj |-> [reg_type \in DOMAIN regs |->
                [key \in {str(IntValue(k)) : k \in DOMAIN regs[reg_type]} |->
                    JsonDump(regs[reg_type][ParseInt(key).n])]]]

\* a file that is no JSON document
NotJson == [valid |-> FALSE, obj |-> <<>>]

\* a file written by hand that holds holding registers only
HrOnly ==
    [valid |-> TRUE,
     obj |-> [reg_type \in {"hr"} |->
                [key \in {<<57>>} |-> JsonDump(IntValue(5))]]]

SimDocuments == {HrOnly, NotJson}

\* for reg_type in ["hr", "ir", "co", "di"]: if reg_type in data:
\*     self.registers[reg_type] = {int(k): v for k, v in data[reg_type].items()}
LoadTypes(regs, obj) ==
    [reg_type \in SimTypes |->
        IF reg_type \in DOMAIN obj
        THEN [k \in {ParseInt(key).n : key \in DOMAIN obj[reg_type]} |->
                 JsonLoad(obj[reg_type][CHOOSE key \in DOMAIN obj[reg_type] :
                                            ParseInt(key).n = k])]
        ELSE regs[reg_type]]

\* load_registers_from_default: the registers after it has run on a file
load_registers_from_default(regs, file) ==
    IF file.exists /\ file.data.valid
    THEN LoadTypes(regs, file.data.obj)
    ELSE regs

\* the value a cell text converts to: a truth word list for coils and
\* discrete inputs, int() for the numeric types
CellValue(reg_type, text) ==
    IF reg_type \in {"co", "di"}
    THEN [ok |-> TRUE,
          value |-> Bool(Lower(text) \in {<<116, 114, 117, 101>>, <<49>>,
                                           <<121, 101, 115>>, <<121>>})]
    ELSE [ok |-> ParseInt(text).ok, value |-> IntValue(ParseInt(text).n)]

\* the widget and the file while a handler runs; writes, restarts and
\* reentered count what the handler has done so far
Widget ==
    [registers |-> registers, file |-> register_file,
     server_running |-> server_running, server_process |-> server_process,
     registers_changed |-> registers_changed, auto_restart |-> auto_restart,
     procs |-> procs,
     writes |-> 0, failed |-> 0, restarts |-> 0, reentered |-> 0]

\* the object subprocess.Popen returns
NewProcess(s) ==
    LET free == Pids \ s.procs
    IN  IF free = {} THEN 0 ELSE CHOOSE p \in free : \A q \in free : p <= q

\* stop_server that clears the flag and leaves the process running
stop_serverFlagOnly(s) ==
    IF s.server_process # 0
    THEN [s EXCEPT !.server_running = FALSE]
    ELSE s

\* stop_server: if hasattr(self, 'server_process'): terminate() and clear
\* server_running
stop_server(s) ==
    IF s.server_process # 0
    THEN [s EXCEPT !.procs = @ \ {s.server_process},
                   !.server_running = FALSE]
    ELSE s

RECURSIVE save_registers_to_default(_)
RECURSIVE restart_server(_)
RECURSIVE start_server(_)

\* save_registers_to_default: write the file, then restart the server when it
\* runs and auto-restart is checked; an exception of open() is logged and
\* shown in the status label
save_registers_to_default(s) ==
    IF s.file.writable
    THEN LET w == [s EXCEPT !.file.exists = TRUE,
                            !.file.data = SimJson(s.registers),
                            !.writes = @ + 1]
         IN  IF w.server_running /\ w.auto_restart
             THEN restart_server(w)
             ELSE w
    ELSE [s EXCEPT !.failed = @ + 1]

\* restart_server: stop the server if it runs, sleep, start it
restart_server(s) ==
    LET r == [s EXCEPT !.restarts = @ + 1]
    IN  start_server(IF r.server_running THEN stop_server(r) ELSE r)

\* start_server: save, then Popen of sys.executable on server.py, which is
\* tracked, and the flag set
start_server(s) ==
    LET e == [s EXCEPT !.reentered = @ + (IF s.server_running THEN 1 ELSE 0)]
        t == save_registers_to_default(e)
    IN  [t EXCEPT !.server_process = NewProcess(t),
                  !.procs = @ \cup {NewProcess(t)},
                  !.server_running = TRUE]

\* the state a handler named op leaves behind
Handled(op, s) ==
    /\ registers' = s.registers
    /\ register_file' = s.file
    /\ server_running' = s.server_running
    /\ server_process' = s.server_process
    /\ registers_changed' = s.registers_changed
    /\ auto_restart' = s.auto_restart
    /\ procs' = s.procs
    /\ pc' = "done"
    /\ req' = [op |-> op, fc |-> "gui", address |-> 0, count |-> 0,
               vals |-> <<>>]
    /\ reply' = [kind |-> "handled",
                 code |-> s.writes, data |-> <<s.restarts, s.reentered>>]
    /\ UNCHANGED <<values, error_map, pos, pre, stalled, store, server_context,
                   last_modified_time, pool_vars>>

\* on_cell_changed: a text typed into the value cell of a row
on_cell_changed(reg_type, address, text) ==
    /\ address \in DOMAIN registers[reg_type]
    /\ LET s == Widget
           cell == CellValue(reg_type, text)
       IN  Handled("on_cell_changed",
                   IF cell.ok
                   THEN [s EXCEPT !.registers[reg_type][address] = cell.value,
                                  !.registers_changed = TRUE]
                   ELSE s)

\* add_register of the widget: the next address after the highest, or 0
ModbusSimulator_add_register(reg_type) ==
    LET s == Widget
        next_address == IF DOMAIN registers[reg_type] # {}
                        THEN Max(DOMAIN registers[reg_type]) + 1
                        ELSE 0
        added == [k \in DOMAIN registers[reg_type] \cup {next_address} |->
                     IF k = next_address THEN DEFAULT_VALUES[reg_type]
                     ELSE registers[reg_type][k]]
    IN  /\ next_address <= MaxNextAddress
        /\ Handled("add_register",
                   save_registers_to_default(
                       [s EXCEPT !.registers[reg_type] = added,
                                 !.registers_changed = TRUE]))

\* edit_register of the widget: the value is read back from the cell of the
\* selected row, which update_register_table filled with str(value)
ModbusSimulator_edit_register(reg_type, address) ==
    /\ address \in DOMAIN registers[reg_type]
    /\ LET s == Widget
           cell == CellValue(reg_type, str(registers[reg_type][address]))
       IN  Handled("edit_register",
                   IF cell.ok
                   THEN save_registers_to_default(
                            [s EXCEPT !.registers[reg_type][address] = cell.value,
                                      !.registers_changed = TRUE])
                   ELSE s)

\* remove_register of the widget on the selected row
ModbusSimulator_remove_register(reg_type, address) ==
    /\ address \in DOMAIN registers[reg_type]
    /\ LET s == Widget
           left == [k \in DOMAIN registers[reg_type] \ {address} |->
                       registers[reg_type][k]]
       IN  Handled("remove_register",
                   save_registers_to_default(
                       [s EXCEPT !.registers[reg_type] = left,
                                 !.registers_changed = TRUE]))

\* auto_save_registers: the 2000 ms timer; it does nothing unless
\* registers_changed
auto_save_registers ==
    /\ registers_changed
    /\ Handled("auto_save_registers",
               [save_registers_to_default(Widget)
                   EXCEPT !.registers_changed = FALSE])

\* the Save Now button, connected to save_registers_to_default
save_now_button ==
    Handled("save_now", save_registers_to_default(Widget))

\* load_registers on the file picked in the dialog, which becomes the
\* register file and is saved over
load_registers ==
    /\ register_file.exists
    /\ LET s == Widget
       IN  Handled("load_registers",
                   IF register_file.data.valid
                   THEN save_registers_to_default(
                            [s EXCEPT !.registers =
                                 LoadTypes(registers, register_file.data.obj)])
                   ELSE [s EXCEPT !.failed = 1])

\* save_registers: the file picked in the dialog is written
save_registers ==
    LET s == Widget
    IN  Handled("save_registers",
                IF register_file.writable
                THEN [s EXCEPT !.file.exists = TRUE,
                               !.file.data = SimJson(registers),
                               !.writes = 1]
                ELSE [s EXCEPT !.failed = 1])

\* reset_to_defaults
reset_to_defaults ==
    Handled("reset_to_defaults",
            save_registers_to_default(
                [Widget EXCEPT !.registers = create_default_registers]))

\* toggle_server, the Start/Stop button
toggle_server ==
    Handled("toggle_server",
            IF server_running
            THEN stop_server(Widget)
            ELSE start_server(Widget))

\* the Restart button, enabled by start_server and disabled by stop_server
restart_button ==
    /\ server_running
    /\ Handled("restart_server", restart_server(Widget))

\* the auto-restart checkbox clicked
auto_restart_checkbox ==
    Handled("auto_restart_checkbox",
            [Widget EXCEPT !.auto_restart = ~auto_restart])

\* the register file rewritten by hand, and its directory made read-only or
\* writable again
FileEdited(document) ==
    Handled("file_edited",
            [Widget EXCEPT !.file.exists = TRUE,
                                 !.file.data = document])

FileMode ==
    Handled("file_mode",
            [Widget EXCEPT !.file.writable = ~register_file.writable])

\* __init__: flags cleared, the default registers, auto-restart checked, then
\* load_registers_from_default on the file found
InitSim ==
    /\ \E exists \in BOOLEAN, writable \in BOOLEAN, document \in SimDocuments :
          /\ exists \/ document = NotJson
          /\ register_file = [exists |-> exists, writable |-> writable,
                              data |-> document]
    /\ registers = load_registers_from_default(create_default_registers,
                                               register_file)
    /\ server_running = FALSE
    /\ server_process = 0
    /\ registers_changed = FALSE
    /\ auto_restart = TRUE
    /\ procs = {}
    /\ pc = "idle"
    /\ pos = 0
    /\ req = NoReq
    /\ reply = NoReply
    /\ pre = "unused"
    /\ stalled = FALSE
    /\ values = "unused"
    /\ error_map = "unused"
    /\ store = "unused"
    /\ server_context = "unused"
    /\ last_modified_time = "unused"
    /\ closed = "unused"
    /\ lin = "unused"
    /\ snaps = "unused"

NextSim ==
    \/ \E reg_type \in SelectedTypes, address \in SelectedRows,
          text \in CellTexts : on_cell_changed(reg_type, address, text)
    \/ \E reg_type \in SelectedTypes :
          ModbusSimulator_add_register(reg_type)
    \/ \E reg_type \in SelectedTypes, address \in SelectedRows :
          ModbusSimulator_edit_register(reg_type, address)
    \/ \E reg_type \in SelectedTypes, address \in SelectedRows :
          ModbusSimulator_remove_register(reg_type, address)
    \/ auto_save_registers
    \/ save_now_button
    \/ load_registers
    \/ save_registers
    \/ reset_to_defaults
    \/ toggle_server
    \/ restart_button
    \/ auto_restart_checkbox
    \/ \E document \in SimDocuments : FileEdited(document)
    \/ FileMode

SpecSim == InitSim /\ [][NextSim]_vars

(***************************************************************************)
(* Vocabulary of the properties                                            *)
(***************************************************************************)
\* the addresses a block request covers
Range(r) == r.address..(r.address + r.count - 1)

Min(S) == CHOOSE x \in S : \A y \in S : x <= y

\* the Modbus exception codes of section 4.2, as the specification lists them
ModbusCode ==
    [b \in ErrBehaviors |->
        CASE b = "ERROR_ILLEGAL_FUNCTION" -> 1
          [] b = "ERROR_ILLEGAL_ADDRESS"  -> 2
          [] b = "ERROR_ILLEGAL_VALUE"    -> 3
          [] b = "ERROR_SERVER_FAILURE"   -> 4
          [] b = "ERROR_ACKNOWLEDGE"      -> 5
          [] b = "ERROR_SERVER_BUSY"      -> 6
          [] b = "ERROR_MEMORY_PARITY"    -> 8
          [] b = "ERROR_GATEWAY_PATH"     -> 10
          [] b = "ERROR_GATEWAY_TARGET"   -> 11]

SentinelBehaviors == {"RETURN_ZERO", "RETURN_MAX_UINT", "RETURN_MAX_INT"}

Sentinel(b) ==
    CASE b = "RETURN_ZERO"     -> 0
      [] b = "RETURN_MAX_UINT" -> 65535
      [] b = "RETURN_MAX_INT"  -> 32767

\* the addresses of the request whose configured behavior is in the set B
Configured(r, B) == {a \in Range(r) : a \in DOMAIN error_map /\ error_map[a] \in B}

BlockDone(op) == pc = "done" /\ req.fc = "block" /\ req.op = op

(***************************************************************************)
(* C1: a write over a range holding an Err* address is rejected with the   *)
(* exception code of that behavior, and storage after the call equals      *)
(* storage before the call.                                                *)
(***************************************************************************)
C1_ErrWriteRejected ==
    (BlockDone("write") /\ Configured(req, ErrBehaviors) # {}) =>
        /\ reply.kind = "ModbusException"
        /\ \E a \in Configured(req, ErrBehaviors) : reply.code = ModbusCode[error_map[a]]
        /\ values = pre

(***************************************************************************)
(* C2: a read returns, for every address of the range configured           *)
(* RETURN_ZERO, RETURN_MAX_UINT or RETURN_MAX_INT, the sentinel word 0,    *)
(* 0xFFFF or 0x7FFF instead of the stored value.                           *)
(***************************************************************************)
C2_SentinelRead ==
    (BlockDone("read") /\ reply.kind = "values") =>
        \A a \in Configured(req, SentinelBehaviors) :
            reply.data[a - req.address + 1] = Sentinel(error_map[a])

(***************************************************************************)
(* C3: a read over a range holding an Err* address fails with the Modbus   *)
(* exception code mapped to the behavior of the lowest such address, and   *)
(* no injected exception carries a code outside {1,2,3,4,5,6,8,10,11}.     *)
(***************************************************************************)
C3_ReadErrCode ==
    /\ reply.kind = "ModbusException" => reply.code \in {1, 2, 3, 4, 5, 6, 8, 10, 11}
    /\ (BlockDone("read") /\ Configured(req, ErrBehaviors) # {}) =>
          /\ reply.kind = "ModbusException"
          /\ reply.code = ModbusCode[error_map[Min(Configured(req, ErrBehaviors))]]

\* a read of a range holding a memory-parity address has failed with code 8
C3_Witness ==
    /\ BlockDone("read")
    /\ Configured(req, {"ERROR_MEMORY_PARITY"}) # {}
    /\ reply.kind = "ModbusException"
    /\ reply.code = 8

(***************************************************************************)
(* C4: a write to an address configured RETURN_ZERO, RETURN_MAX_UINT,      *)
(* RETURN_MAX_INT or NO_RESPONSE lands in storage with the incoming value. *)
(***************************************************************************)
C4_WriteLandsIncoming ==
    BlockDone("write") =>
        \A a \in Configured(req, SentinelBehaviors \cup {"NO_RESPONSE"}) :
            a \in DOMAIN values /\ values[a] = req.vals[a - req.address + 1]

(***************************************************************************)
(* C5: reads never change stored values: from the moment a read is entered *)
(* until it has returned, raised or is still asleep, storage is what it    *)
(* was when the read was entered.                                          *)
(***************************************************************************)
C5_ReadKeepsStorage ==
    (req.fc = "block" /\ req.op = "read") => values = pre

\* a read of an address configured with a sentinel behavior has returned
C5_Witness ==
    /\ BlockDone("read")
    /\ reply.kind = "values"
    /\ Configured(req, SentinelBehaviors) # {}
    /\ values = pre

(***************************************************************************)
(* C6: the outcome of a multi-address read or write is that of the lowest  *)
(* address whose behavior demands Raise or Stall: a request whose lowest   *)
(* such address is NO_RESPONSE (reads) stays stalled and returns nothing,  *)
(* one whose lowest such address is Err* fails with that address's code.   *)
(***************************************************************************)
C6_LowestFaultDecides ==
    LET demanding == IF req.op = "read" THEN ErrBehaviors \cup {"NO_RESPONSE"}
                     ELSE ErrBehaviors
        faults == Configured(req, demanding)
    IN  (req.fc = "block" /\ pc # "idle" /\ faults # {}) =>
            IF error_map[Min(faults)] = "NO_RESPONSE"
            THEN pc = "sleeping" /\ pos = Min(faults) /\ reply.kind = "none"
            ELSE /\ pc = "done"
                 /\ reply.kind = "ModbusException"
                 /\ reply.code = ModbusCode[error_map[Min(faults)]]

(***************************************************************************)
(* C7: a read over a range with exactly one Err* address and every other   *)
(* address Normal fails as a whole with that address's code: it returns no *)
(* values and storage is unchanged.                                        *)
(***************************************************************************)
C7_SingleErrFailsWhole ==
    (/\ BlockDone("read")
     /\ Cardinality(Configured(req, ErrBehaviors)) = 1
     /\ \A a \in Range(req) \ Configured(req, ErrBehaviors) :
            a \in DOMAIN values /\ (a \in DOMAIN error_map => error_map[a] = "NORMAL"))
    => /\ reply = [kind |-> "ModbusException",
                   code |-> ModbusCode[error_map[Min(Configured(req, ErrBehaviors))]],
                   data |-> <<>>]
       /\ values = pre

\* a two-address read whose upper address is illegal-address and whose lower
\* address is a mapped Normal register has failed with code 2
C7_Witness ==
    /\ BlockDone("read")
    /\ req.count = 2
    /\ Configured(req, ErrBehaviors) = {req.address + 1}
    /\ error_map[req.address + 1] = "ERROR_ILLEGAL_ADDRESS"
    /\ req.address \in DOMAIN values
    /\ req.address \notin DOMAIN error_map
    /\ reply.kind = "ModbusException"
    /\ reply.code = 2

(***************************************************************************)
(* C8: a read that has met a NO_RESPONSE address stays stalled and never   *)
(* produces a response, neither values nor an exception.                   *)
(***************************************************************************)
C8_StalledNeverReplies ==
    stalled => (pc = "sleeping" /\ reply.kind = "none")

(***************************************************************************)
(* C9: a write whose range holds an unmapped address fails, leaves every   *)
(* address of the bank unchanged and does not create the unmapped address. *)
(***************************************************************************)
C9_WriteAllOrNothing ==
    (BlockDone("write") /\ \E a \in Range(req) : a \notin DOMAIN pre) =>
        /\ reply.kind # "ok"
        /\ values = pre

CliDone(op, function) == pc = "done" /\ req.fc = function /\ req.op = op

(***************************************************************************)
(* C10: read-after-write on the holding registers of the minimal-format    *)
(* server: once loaded, every address of the file holds its file value; a  *)
(* successful read returns the stored words of its range in order and      *)
(* changes nothing; a successful write of v to address a leaves v at a and *)
(* every other word of every bank as it was.                               *)
(***************************************************************************)
C10_ReadAfterWrite ==
    /\ (pc = "idle" /\ registers # None) =>
          \A a \in DOMAIN registers["hr"] : store["hr"][a + 1] = registers["hr"][a]
    /\ (CliDone("read", "hr") /\ reply.kind = "response") =>
          /\ Len(reply.data) = req.count
          /\ \A i \in 1..req.count : reply.data[i] = store["hr"][req.address + i]
          /\ store = pre
    /\ (CliDone("write", "hr") /\ reply.kind = "response") =>
          /\ store["hr"][req.address + 1] = req.vals[1]
          /\ reply.data = req.vals
          /\ Len(store["hr"]) = Len(pre["hr"])
          /\ \A i \in 1..Len(store["hr"]) :
                i # req.address + 1 => store["hr"][i] = pre["hr"][i]
          /\ \A t \in CliTypes \ {"hr"} : store[t] = pre[t]

\* {hr: {0: 12345, 1: 54321}} was loaded, address 0 was written, and a read
\* of address 0, count 2 has returned the written word followed by 54321
C10_Witness ==
    /\ registers # None
    /\ registers["hr"] = (0 :> 12345 @@ 1 :> 54321)
    /\ CliDone("read", "hr")
    /\ req.address = 0
    /\ reply = [kind |-> "response", code |-> 0, data |-> <<9876, 54321>>]

(***************************************************************************)
(* Claims on the datastore (SpecStore)                                     *)
(***************************************************************************)
StoreDone(op) == pc = "done" /\ req.fc = "store" /\ req.op = op

Loaded == pc = "done" /\ req.op \in {"load", "import"}

\* the bank of one register type: the addresses create_data_block serves
Bank(regs, register_type) ==
    DOMAIN create_data_block(regs, register_type).values

\* C11: per-type address namespaces.  After add_register of a register of
\* type T at an address no register of type T held, the bank of T serves the
\* address, and every bank that served the address before still serves it.
C11_NamespacePerType ==
    StoreDone("add") =>
        LET r == req.vals[1] IN
        r.address \notin Bank(pre, r.register_type) =>
            /\ r.address \in Bank(registers, r.register_type)
            /\ \A t \in StoreTypes :
                   r.address \in Bank(pre, t) => r.address \in Bank(registers, t)

\* C12: add_register of a register whose address is already present (held
\* by a register of the same type) fails with DuplicateAddress reported to
\* the caller, and the register set is left as it was.
C12_DuplicateAddFails ==
    StoreDone("add") =>
        LET r == req.vals[1] IN
        r.address \in Bank(pre, r.register_type) =>
            /\ reply.kind = "DuplicateAddress"
            /\ registers = pre

\* C13: a file whose entries are all well-formed and two of which give the
\* same address (of the same register type) is rejected as a whole: the
\* loader does not end in success.
C13_DuplicateRecordsRejected ==
    (Loaded /\ req.fc = "file") =>
        LET recs == req.vals IN
        (/\ \A i \in 1..Len(recs) : recs[i].complete
         /\ \E i, j \in 1..Len(recs) :
                /\ i < j
                /\ recs[i].register.address = recs[j].register.address
                /\ recs[i].register.register_type =
                       recs[j].register.register_type)
        => reply.kind # "ok"

\* C14: a load or import that fails leaves the register set exactly as it
\* was before the call.
C14_FailedLoadKeepsRegisters ==
    (Loaded /\ reply.kind = "error") => registers = pre

C16_StallBlocksNobody ==
    (\A w \in Workers : Free(w) \/ pc[w] = "sleeping") =>
        \A a \in PoolAddr \ DOMAIN error_map :
            \E x \in Workers : ENABLED getValuesEnter(x, a, 1)

\* C17: a stalled request is cancellable.  A request whose connection was
\* closed while it was stalled ends without returning data.
C17_ClosedStallReturnsNothing ==
    \A w \in Workers :
        (closed[w] /\ pc[w] = "done") => reply[w].kind # "values"

\* C18: bulk get and bulk set on one bank are mutually exclusive.  The
\* values a read returns are those of the bank with every write landed
\* whole, as it stood at some moment between the read's start and its end:
\* all pre-write or all post-write, never a mixture.
C18_BulkOpsExclusive ==
    \A w \in Workers :
        (pc[w] = "done" /\ req[w].op = "read" /\ reply[w].kind = "values") =>
            \E b \in snaps[w] :
                reply[w].data =
                    [i \in 1..req[w].count |-> b[req[w].address + i - 1]]

(***************************************************************************)
(* Claims on unmapped addresses and on the ways a request ends (Spec)      *)
(***************************************************************************)
\* C19: a read of a range holding an address no register is mapped to
\* fails with Modbus exception 2 and returns no values (the mapped
\* addresses of the range carrying no fault behavior of their own).
C19_UnmappedReadIsException2 ==
    (/\ BlockDone("read")
     /\ Range(req) \ DOMAIN values # {}
     /\ Range(req) \cap DOMAIN error_map = {})
    => reply = [kind |-> "ModbusException", code |-> 2, data |-> <<>>]

\* C20: every read or write that has ended, at the data block or at the
\* slave context, ended in a success payload or in one Modbus exception
\* code; nothing else comes out.
C20_PayloadOrExceptionOnly ==
    pc = "done" => reply.kind \in {"values", "ok", "ModbusException"}

(***************************************************************************)
(* Encoding                                                                *)
(***************************************************************************)
Encoded == pc = "done" /\ req.op = "encode"

\* the register encoded, with its enabled flag turned over
Twin == [registers[req.address] EXCEPT !.enabled = ~@]

\* C21: two registers that differ only in their enabled flag and have the same
\* error behaviour give the same result: what encode returns for a register
\* is what it returns for the register with the flag turned over.
C21_EnabledIrrelevant ==
    Encoded => reply = encode_value(Twin)

(***************************************************************************)
(* Start-up of the minimal-format server                                   *)
(***************************************************************************)
\* C22: a load that fails (the file is missing) aborts the start: no request
\* is ever answered from substitute default values.
C22_FailedLoadServesNothing ==
    registers = None => ~(pc = "done" /\ reply.kind = "response")

(***************************************************************************)
(* Saving and loading                                                      *)
(***************************************************************************)
\* what save_to_file or export_to_csv writes for a register set, in the
\* format of the file at hand
Written(regs) ==
    [format |-> register_file.format,
     rows |-> [i \in 1..Len(ValuesList(regs)) |->
                  IF register_file.format = "json"
                  THEN JsonObject(ValuesList(regs)[i])
                  ELSE CsvRow(ValuesList(regs)[i])]]

\* C23: a register set saved (JSON) or exported (CSV) and loaded back from
\* the file written is the register set it was, in all thirteen fields,
\* BOOLEAN and STRING registers included.
C23_SaveLoadRoundTrips ==
    Loaded /\ register_file = Written(pre) => registers = pre

(***************************************************************************)
(* The bank of the minimal-format server after a load                      *)
(***************************************************************************)
\* the value create_context fills a list of a register type with
FillDefault(function) == IF function \in {"hr", "ir"} THEN 0 ELSE FALSE

\* C24: after a load of the maps of a file, the first read answered returns,
\* for every address of its range that is a key of the map of its register
\* type, the value the map holds for it, unscaled, and the fill value for
\* every other address; a single address of the map is always answered.
C24_LoadedMapIsRead ==
    [][(pc = "idle" /\ registers # None /\ req'.op = "read") =>
          /\ reply'.kind = "response" =>
                \A i \in 1..req'.count :
                   reply'.data[i] =
                      IF req'.address + i - 1 \in DOMAIN registers[req'.fc]
                      THEN registers[req'.fc][req'.address + i - 1]
                      ELSE FillDefault(req'.fc)
          /\ (req'.count = 1 /\ req'.address \in DOMAIN registers[req'.fc])
                => reply'.kind = "response"]_vars

\* a read of two holding registers that the file gave different values
C24_Witness ==
    /\ CliDone("read", "hr")
    /\ registers # None
    /\ DOMAIN registers["hr"] = {0, 1}
    /\ registers["hr"][0] # registers["hr"][1]
    /\ req.address = 0
    /\ reply.kind = "response"
    /\ reply.data = <<registers["hr"][0], registers["hr"][1]>>

\* the words the values a read returned are sent as
Wire(data) == [i \in 1..Len(data) |-> data[i].n]

\* C25: a read that proceeds normally returns the codec encoding of the
\* register's value after scaling, not the raw value, for every register the
\* codec encodes.
C25_ReadIsEncoding ==
    (BlockDone("read") /\ reply.kind = "values"
        /\ registers[req.address].error_behavior = "NORMAL"
        /\ encode_value(registers[req.address]).kind = "words")
    => Wire(reply.data) = encode_value(registers[req.address]).data

\* the register encoded
Subject == registers[req.address]

\* no sentinel stands in for the value of the register encoded
OwnValue == Subject.enabled \/ Subject.error_behavior = "NORMAL"

\* C26: encode applies wireValue = (logicalValue - offset) / scalingFactor to
\* every numeric data type: the words of an integer type are those of the
\* quotient cut to a whole number, the words of FLOAT32 those of the quotient;
\* it applies no transform to BOOLEAN and STRING, whose outcome is the same
\* under every scaling factor and offset.
C26_ScalingOnNumericOnly ==
    Encoded =>
      /\ (OwnValue /\ Subject.data_type \in IntTypes /\ reply.kind = "words") =>
            reply.data =
               pack_words(Words(Trunc(Subject.value.n - Subject.offset,
                                      Subject.scaling_factor),
                                Size(Subject.data_type)),
                          Subject.byte_order, Subject.word_order)
      /\ (OwnValue /\ Subject.data_type = "FLOAT32") =>
            /\ reply.kind = "words"
            /\ reply.data =
                 pack_words(F32Words((Subject.value.n - Subject.offset)
                                       * (2 \div Subject.scaling_factor)),
                            Subject.byte_order, Subject.word_order)
      /\ Subject.data_type \in {"BOOLEAN", "STRING"} =>
            \A s \in {1, 2} : \A o \in {0, 10} :
               reply = encode_value([Subject EXCEPT !.scaling_factor = s,
                                                    !.offset = o])

\* the UINT16 register with scaling factor 2, offset 10 and value 50 encoded
\* as 20
C26_Witness ==
    /\ Encoded
    /\ Subject.data_type = "UINT16"
    /\ Subject.value.n = 50
    /\ Subject.scaling_factor = 2
    /\ Subject.offset = 10
    /\ Subject.byte_order = "BIG"
    /\ OwnValue
    /\ reply.kind = "words"
    /\ reply.data = <<20>>

\* C27: integer encoding wraps: for every integer data type and every wire
\* value, encode succeeds and gives the words of the value modulo two to the
\* width of the type; it never raises on overflow.
C27_IntegerWraps ==
    (Encoded /\ Subject.data_type \in IntTypes) =>
       /\ reply.kind = "words"
       /\ reply.data =
            pack_words(Words(Trunc(Substituted(Subject).n - Subject.offset,
                                   Subject.scaling_factor),
                             Size(Subject.data_type)),
                       Subject.byte_order, Subject.word_order)

\* the value of a register is one its data type can hold
Representable(register) ==
    register.data_type \in IntTypes =>
       InRange(register.value.n, Size(register.data_type),
               Signed(register.data_type))

\* the codec without the scaling of the register: factor 1 and offset 0
CodecLevel(register) ==
    /\ register.scaling_factor = 1
    /\ register.offset = 0
    /\ register.enabled

\* C28: decoding the words encode produced gives back the value encoded, for
\* every data type, byte order, word order and representable value: encode
\* yields words, and no other representable value of the data type yields
\* the same words under the same orders.
C28_RoundTrip ==
    (Encoded /\ CodecLevel(Subject) /\ Representable(Subject)) =>
       /\ reply.kind = "words"
       /\ \A v \in EncValues(Subject.data_type) \ {Subject.value} :
             Representable([Subject EXCEPT !.value = v]) =>
                encode_value([Subject EXCEPT !.value = v]) # reply

(***************************************************************************)
(* Writes and the NO_RESPONSE behavior                                     *)
(***************************************************************************)
\* C29: a write whose range includes a NO_RESPONSE address and no error
\* address completes without entering a delay and stores the values written
\* at every address of the range, whatever the behaviors of the others.
C29_WriteNeverStalls ==
    (BlockDone("write") /\ Configured(req, {"NO_RESPONSE"}) # {}
        /\ Configured(req, ErrBehaviors) = {})
    => /\ ~stalled
       /\ reply.kind = "ok"
       /\ \A a \in Range(req) : values[a] = req.vals[a - req.address + 1]

(***************************************************************************)
(* Removal from the datastore                                              *)
(***************************************************************************)
\* C30: remove_register leaves every register at another address as it was
\* and leaves the register set unchanged when the address is absent; a
\* second removal of the same address changes nothing.
C30_RemoveIdempotent ==
    /\ [](StoreDone("remove") =>
            /\ DOMAIN registers = DOMAIN pre \ {req.address}
            /\ \A a \in DOMAIN registers : registers[a] = pre[a]
            /\ req.address \notin DOMAIN pre => registers = pre)
    /\ [][(StoreDone("remove") /\ req'.op = "remove" /\ req'.fc = "store"
            /\ req'.address = req.address) => registers' = registers]_vars

\* an absent address removed from a datastore that holds another register
C30_Witness ==
    /\ StoreDone("remove")
    /\ req.address \notin DOMAIN pre
    /\ pre # <<>>
    /\ registers = pre

(***************************************************************************)
(* The datastore edited through the register table                         *)
(***************************************************************************)
\* C31: every key of the register mapping maps to a register whose address
\* field is the key, after any sequence of add, edit, duplicate, remove,
\* load and import.
C31_KeyIsAddress ==
    \A k \in DOMAIN registers : registers[k].address = k

\* C34: every register address of the datastore is within 0..65535 after
\* any sequence of add, edit, duplicate, load and import.
C34_AddressInRange ==
    \A k \in DOMAIN registers :
       k \in 0..AddressMax /\ registers[k].address \in 0..AddressMax

(***************************************************************************)
(* The file-watching server after a reload                                 *)
(***************************************************************************)
\* C32: once the poller has reloaded the changed register file, a read of
\* holding registers returns the values of the new register set: every word
\* of the response is the word the context built by the most recent reload
\* holds at its address, or a word a client wrote.
C32_ReloadVisible ==
    [][(/\ pc' = "done" /\ req'.op = "read" /\ req'.fc = "hr"
        /\ reply'.kind = "response"
        /\ register_file' = register_file
        /\ last_modified_time' = last_modified_time
        /\ last_modified_time = register_file.mtime)
       => \A i \in 1..req'.count :
             \/ reply'.data[i] = server_context["hr"][req'.address + i]
             \/ reply'.data[i] \in CliWriteValues]_vars

(***************************************************************************)
(* The bank built from the keys of a file                                  *)
(***************************************************************************)
\* C33: every loaded entry is stored only at its own address: the bank is
\* built, every key is an index of it, and every index holds the value of
\* the entry with that key, or the fill value when there is none; this for
\* every key int() accepts, negative keys included.
C33_EntryAtOwnIndex ==
    /\ pc # "crashed"
    /\ \A i \in 1..Len(registers) :
          registers[i].addr \in 0..(Len(store["hr"]) - 1)
    /\ \A a \in 0..(Len(store["hr"]) - 1) :
          store["hr"][a + 1] =
             IF \E i \in 1..Len(registers) : registers[i].addr = a
             THEN registers[CHOOSE i \in 1..Len(registers) :
                               registers[i].addr = a].val
             ELSE 0

(***************************************************************************)
(* The sentinel of a disabled register on the wire                         *)
(***************************************************************************)
\* C39: when encode_value substitutes a sentinel for the value of a disabled
\* register of an integer type, the words it builds are those of the
\* sentinel itself (0, 0xFFFF or 0x7FFF), whatever the scaling factor and
\* the offset of the register: no scaling is applied on top.
C39_SentinelUnscaled ==
    (/\ Encoded
     /\ ~Subject.enabled
     /\ Subject.error_behavior \in SentinelBehaviors
     /\ Subject.data_type \in IntTypes
     /\ reply.kind = "words")
    => reply.data =
          pack_words(Words(Sentinel(Subject.error_behavior),
                           Size(Subject.data_type)),
                     Subject.byte_order, Subject.word_order)

(***************************************************************************)
(* Claims on the simulator widget (SpecSim)                                *)
(***************************************************************************)
\* a handler of the widget has run
Handler(ops) == pc = "done" /\ req.fc = "gui" /\ req.op \in ops

C36_ClearedOnlyWhenWritten ==
    [][(registers_changed /\ ~registers_changed')
       => /\ register_file'.exists
          /\ register_file'.data.valid
          /\ register_file'.data.obj = SimJson(registers').obj]_vars

\* C37: with the server running and auto-restart checked, one add, edit or
\* remove writes the file exactly once and restarts the server at most once,
\* and leaves nothing for the auto-save timer to save and restart again.
C37_OneSaveOneRestart ==
    [][(/\ pc' = "done" /\ req'.fc = "gui"
        /\ req'.op \in {"add_register", "edit_register", "remove_register"}
        /\ server_running /\ auto_restart /\ register_file.writable)
       => /\ reply'.code = 1
          /\ reply'.data[1] <= 1
          /\ ~registers_changed']_vars

\* C38: loading a register file replaces the whole register set: every type
\* holds exactly the entries the file has for it, and a type absent from the
\* file holds none.
C38_LoadReplacesAll ==
    [][(/\ pc' = "done" /\ req'.fc = "gui" /\ req'.op = "load_registers"
        /\ register_file.exists /\ register_file.data.valid)
       => \A reg_type \in SimTypes :
             LET obj == register_file.data.obj
             IN  IF reg_type \in DOMAIN obj
                 THEN /\ DOMAIN registers'[reg_type] =
                            {ParseInt(key).n : key \in DOMAIN obj[reg_type]}
                      /\ \A key \in DOMAIN obj[reg_type] :
                            registers'[reg_type][ParseInt(key).n] =
                               JsonLoad(obj[reg_type][key])
                 ELSE DOMAIN registers'[reg_type] = {}]_vars

====
